---- MODULE Spec2Model ----
(***************************************************************************)
(* The IPFS (kubo) installers of the repository as state machines.         *)
(*                                                                         *)
(*   variant "cli"    src/cli/ipfs-installer.js   main()                   *)
(*   variant "class"  src/unnamed/part_001        IPFSInstaller.install()  *)
(*   variant "setup"  src/unnamed/part_000        main(): install, init,   *)
(*                                                start the daemon         *)
(*                                                                         *)
(* and the `start` command of the provider CLI with its heartbeat and its  *)
(* shutdown handler:                                                       *)
(*                                                                         *)
(*   variant "start_minute"  src/unnamed/part_002 lines 89-245             *)
(*   variant "start_second"  src/unnamed/part_002 lines 341-552            *)
(*                                                                         *)
(* and the storage ledger of the contract:                                 *)
(*                                                                         *)
(*   variant "contract"  src/contracts/AlphaAIStorage.sol                  *)
(*                       purchaseStorage / releaseStorage                  *)
(*                                                                         *)
(* A behaviour is one run of one installer on one host.  The host (OS,     *)
(* CPU, the directories on PATH and the binaries in them) is chosen in     *)
(* Init; the answers of the network, of subprocesses and of the file       *)
(* system are chosen by \E at the step that asks for them.                 *)
(***************************************************************************)
EXTENDS Integers, Sequences, FiniteSets, TLC

\* ------------------------------------------------------------- constants
MAX_RETRIES == 3
BASE_DELAY  == 2000
\* granularity (ms) at which the model lets time pass during a backoff
TickMs      == 500

Variants  == {"cli", "class", "setup", "start_minute", "start_second", "contract"}
\* the variants that are runs of the provider CLI's start command
StartCommands == {"start_minute", "start_second"}
\* heartbeat callbacks that can be under way at once
MaxBeats  == 2

\* the contract's callers and the provider addresses they name; ZERO is address(0)
ZERO      == "0x0"
Users     == {"user1", "user2"}
ProviderAddrs == {ZERO, "provider1"}
\* the largest value of the contract's unsigned integers (uint256, narrowed)
UINT_MAX  == 3
\* the largest amount passed to a call
MaxAmount == 3
\* calls are followed while the total a user has purchased from a provider
\* stays within this
MaxPurchased == 4
Platforms == {"win32", "darwin", "linux", "freebsd"}
Archs     == {"x64", "arm64", "ia32"}
\* directories that can be on PATH: the installer's own install directory
\* and some other directory of the host
Dirs      == {"installDir", "sysDir"}
BinKinds  == {"none", "bad", "ok"}      \* no file / file that fails to run / runs

\* answers of the release registry and of the distribution server
RegistryAnswers == {"tag_v", "tag_plain", "timeout", "conn_error", "http_500", "malformed"}
DownloadAnswers == {"ok", "http_404", "http_500", "timeout", "conn_reset"}

VARIABLES
  variant,    \* which installer runs
  platform,   \* os.platform()
  arch,       \* os.arch()
  bin,        \* bin[d]: the ipfs binary in directory d
  execBit,    \* the install directory's binary has its executable bit
  procPath,   \* process.env.PATH, a string: the sequence of its tokens, each
              \* a directory name or the separator ";"
  userPath,   \* the user-scope PATH value (Windows), a string likewise
  tempDir,    \* <tmp>/ipfs-install exists
  archive,    \* the file at the download's destination path
  extracted,  \* what the extracted tree holds at kubo/<binaryName>
  pc,         \* position of the run
  retries,    \* retry(): parameter retries of the current invocation
  delay,      \* retry(): parameter delay of the current invocation
  attempts,   \* retry(): invocations of fn so far in the current retry() call
  waits,      \* retry(): the delays waited so far in the current retry() call
  elapsed,    \* time since the pending setTimeout was armed
  lastErr,    \* the error of the latest failed attempt ("none" if none)
  version,    \* the resolved version tag
  url,        \* the download URL, as a record of its parts
  extractor,  \* which extractor was run
  log,        \* the steps invoked so far, in order (the attempts of one
              \* retry() call are one step)
  cmds,       \* the package-manager command lines run so far, in order
  pkgResult,  \* what installWithPackageManager returned ("none" before the call)
  execs,      \* the runs of `ipfs --version` so far: the step, the PATH, the result
  network,    \* the servers an HTTP request was sent to so far
  inFlight,   \* download requests that were sent and have not ended
  versionOk,  \* a successful `ipfs --version` was observed in this run
  repo,       \* the daemon's repository: "none" or "initialized"
  daemonUp,   \* an ipfs daemon is running and answers `ipfs swarm peers`
  spawned,    \* `ipfs daemon` processes spawned by this run
  readyLine,  \* the spawned daemon has printed its readiness line
  initErr,    \* the error message of the last `ipfs init`, <<>> when it succeeded
  is_online,  \* column is_online of the provider's row in the database
  updateStatusInterval,  \* the setInterval timer of the heartbeat is armed
  beats,      \* heartbeat callbacks that have started and not yet sent their write
  requests,   \* the writes to the provider's row that were sent and that the
              \* database has not handled yet
  shutdownWritten,  \* the database has applied the write of the SIGINT handler
  storageBalances,  \* contract: storageBalances[user][provider]
  purchased,  \* the total each user has purchased for each provider
  released,   \* the total each user has released for each provider
  lastCall,   \* the latest call to the contract and whether it reverted
  outcome,    \* terminal outcome of the run
  reason,     \* the error that ended a failed run
  exitCode    \* process exit status ("none" while running)

vars == <<variant, platform, arch, bin, execBit, procPath, userPath, tempDir,
          archive, extracted, pc, retries, delay, attempts, waits, elapsed,
          lastErr, version, url, extractor, log, cmds, pkgResult, execs, network, inFlight,
          versionOk, repo, daemonUp, spawned, readyLine, initErr,
          is_online, updateStatusInterval, beats, requests, shutdownWritten,
          storageBalances, purchased, released, lastCall,
          outcome, reason, exitCode>>

hostVars  == <<variant, platform, arch>>
retryVars == <<retries, delay, attempts, waits, elapsed, lastErr>>
fsVars    == <<bin, execBit, tempDir, archive, extracted>>
pathVars  == <<procPath, userPath>>
endVars   == <<outcome, reason, exitCode>>
daemonVars == <<repo, daemonUp, spawned, readyLine, initErr>>
providerVars == <<is_online, updateStatusInterval, beats, requests, shutdownWritten>>
chainVars == <<storageBalances, purchased, released, lastCall>>
\* the state of the installers, which the start command leaves alone
installVars == <<daemonVars, fsVars, pathVars, retryVars, version, url, extractor, log,
                 cmds, pkgResult, execs, network, inFlight, versionOk>>

Range(s) == {s[i] : i \in DOMAIN s}

\* the log with step appended, unless it is the step the log ends with
Logged(step) == IF log # <<>> /\ log[Len(log)] = step THEN log ELSE Append(log, step)

\* ------------------------------------------------------------- host
\* INSTALL_PATHS[platform] is defined for these platforms only
INSTALL_PATHS_has(p) == p \in {"win32", "darwin", "linux"}

\* The directory in which the shell finds `ipfs`: the first directory of PATH
\* holding an ipfs file that the OS accepts as a program ("none" if there is none).
Usable(d) == bin[d] # "none" /\ (d = "installDir" => (execBit \/ platform = "win32"))

\* str.split(';'): the entries of a PATH string, each the sequence of the
\* tokens between two separators (the empty string splits into one empty entry)
RECURSIVE Split(_)
Split(str) ==
  IF str = <<>> THEN << <<>> >>
  ELSE LET rest == Split(Tail(str))
       IN  IF Head(str) = ";" THEN << <<>> >> \o rest
           ELSE << <<Head(str)>> \o Head(rest) >> \o Tail(rest)

\* an entry of PATH names a directory the shell searches
IsDir(entry) == Len(entry) = 1 /\ entry[1] \in Dirs

RECURSIVE FirstUsable(_)
FirstUsable(entries) ==
  IF entries = <<>> THEN "none"
  ELSE IF IsDir(Head(entries)) /\ Usable(Head(entries)[1]) THEN Head(entries)[1]
  ELSE FirstUsable(Tail(entries))

\* which('ipfs') finds a binary
WhichIpfs == FirstUsable(Split(procPath)) # "none"
\* `ipfs --version` exits with status 0 when run with PATH = path
IpfsRunsWith(path) ==
  FirstUsable(Split(path)) # "none" /\ bin[FirstUsable(Split(path))] = "ok"
IpfsVersionRuns == IpfsRunsWith(procPath)

\* execs after `ipfs --version` was run in step under PATH = path
Executed(step, path) ==
  Append(execs, [step |-> step, path |-> path, ok |-> IpfsRunsWith(path)])

\* ------------------------------------------------------------- values
\* a version tag is the sequence of its tokens: v0.22.0 is <<"v", "0.22.0">>
UNDEFINED == <<"undefined">>
NoVersion == <<>>
NoUrl == [base |-> "", dir |-> <<>>, ver |-> <<>>, os |-> "", arch |-> "", ext |-> ""]

Outcomes == {"AlreadyPresent", "InstalledViaPackageManager", "InstalledManually", "Failed"}

\* the run ends normally with outcome o
Finish(o) == /\ pc' = "done" /\ outcome' = o /\ reason' = "" /\ exitCode' = 0
\* the run ends in process.exit(1) with error r
Fail(r) == /\ pc' = "done" /\ outcome' = "Failed" /\ reason' = r /\ exitCode' = 1

\* no call was made to the contract yet
NoCall == [fn |-> "none", sender |-> "none", provider |-> "none", amount |-> 0,
           reverted |-> FALSE]

Init ==
  /\ variant \in Variants
  /\ platform \in Platforms
  /\ arch \in Archs
  /\ bin \in [Dirs -> BinKinds]
  \* the start command and the contract are looked at on one host: they
  \* touch none of the above
  /\ variant \in StartCommands \cup {"contract"} =>
       /\ platform = "linux" /\ arch = "x64" /\ bin = [d \in Dirs |-> "ok"]
       /\ procPath = <<"sysDir">>
  /\ execBit = (bin["installDir"] # "none")
  /\ procPath \in {<<"sysDir">>, <<"sysDir", ";", "installDir">>,
                    <<"installDir", ";", "sysDir">>}
  /\ IF platform = "win32"
       THEN userPath \in {<<>>, <<"sysDir">>, <<"installDir">>, <<"sysDir", ";">>,
                          <<"sysDir", ";", "installDir">>}
       ELSE userPath = <<>>
  /\ tempDir = FALSE /\ archive = "none" /\ extracted = "none"
  /\ pc = CASE variant \in StartCommands -> "start"
             [] variant = "contract" -> "deployed"
             [] OTHER -> "check"
  /\ retries = MAX_RETRIES /\ delay = BASE_DELAY /\ attempts = 0
  /\ waits = <<>> /\ elapsed = 0 /\ lastErr = "none"
  /\ version = NoVersion /\ url = NoUrl /\ extractor = "none"
  /\ log = <<>> /\ cmds = <<>> /\ pkgResult = "none" /\ execs = <<>>
  /\ network = {} /\ inFlight = 0 /\ versionOk = FALSE
  /\ IF variant = "setup"
       THEN repo \in {"none", "initialized"} /\ daemonUp \in BOOLEAN
       ELSE repo = "none" /\ daemonUp = FALSE
  /\ spawned = 0 /\ readyLine = FALSE /\ initErr = <<>>
  /\ IF variant \in StartCommands THEN is_online \in BOOLEAN ELSE is_online = FALSE
  /\ updateStatusInterval = FALSE /\ beats = 0 /\ requests = {}
  /\ shutdownWritten = FALSE
  /\ storageBalances = [u \in Users |-> [p \in ProviderAddrs |-> 0]]
  /\ purchased = [u \in Users |-> [p \in ProviderAddrs |-> 0]]
  /\ released = [u \in Users |-> [p \in ProviderAddrs |-> 0]]
  /\ lastCall = NoCall
  /\ outcome = "none" /\ reason = "" /\ exitCode = "none"

\* ------------------------------------------------------------- retry()
\* a call retry(fn) with the default parameters
retry_call ==
  /\ retries' = MAX_RETRIES /\ delay' = BASE_DELAY /\ attempts' = 0
  /\ waits' = <<>> /\ elapsed' = 0 /\ lastErr' = "none"

\* `return await fn()`: fn succeeded, the call returns and its frame is gone
retry_return ==
  /\ retries' = MAX_RETRIES /\ delay' = BASE_DELAY /\ attempts' = 0
  /\ waits' = <<>> /\ elapsed' = 0 /\ lastErr' = "none"

\* a retry() that gives up while one retry is still left
retry_exhausted_early(r) == r <= 1

\* `if (retries === 0) throw error`
retry_exhausted(r) == r = 0

\* a retry() that passes its delay on unchanged
retry_nextDelay_constant(d) == d

\* `delay * 1.5`
retry_nextDelay(d) == (d * 3) \div 2

\* a retry() that rethrows the error it caught one attempt earlier
retry_rethrown_previous(before, caught) == before

\* `throw error`: the error rethrown is the one this frame's catch received,
\* and the frames below only pass it on (`return retry(...)` in their catch)
retry_rethrown(before, caught) == caught

\* fn threw err (thrown is its message, thrownBefore the message of the
\* attempt before): rethrow when no retries are left, else arm the timer
retry_catch(err, waitPc, thrown, thrownBefore) ==
  /\ attempts' = attempts + 1
  /\ lastErr' = err
  /\ IF retry_exhausted(retries)
       THEN /\ Fail(retry_rethrown(thrownBefore, thrown))
            /\ UNCHANGED <<retries, delay, waits, elapsed>>
       ELSE /\ pc' = waitPc
            /\ waits' = Append(waits, delay)
            /\ elapsed' = 0
            /\ UNCHANGED <<retries, delay, endVars>>

\* time passes while a setTimeout(resolve, delay) is pending
retry_tick ==
  /\ pc \in {"resolve_wait", "download_wait"}
  /\ elapsed < delay
  /\ elapsed' = elapsed + TickMs
  /\ UNCHANGED <<hostVars, chainVars, providerVars, daemonVars, fsVars, pathVars, endVars, pc, retries, delay, attempts,
                 waits, lastErr, version, url, extractor, log, cmds, pkgResult, network, inFlight,
                 versionOk, execs>>

\* a timer that never fires
retry_timerFired_never(d, e) == FALSE

\* the timer fired: `return retry(fn, retries - 1, delay * 1.5)`
retry_timerFired(d, e) == e >= d

retry_again ==
  /\ pc \in {"resolve_wait", "download_wait"}
  /\ retry_timerFired(delay, elapsed)
  /\ retries' = retries - 1
  /\ delay' = retry_nextDelay(delay)
  /\ pc' = IF pc = "resolve_wait" THEN "resolve" ELSE "download"
  /\ UNCHANGED <<hostVars, chainVars, providerVars, daemonVars, fsVars, pathVars, endVars, attempts, waits, elapsed,
                 lastErr, version, url, extractor, log, cmds, pkgResult, network, inFlight, versionOk, execs>>

\* ------------------------------------------------------------- cli: main()
checkIPFSInstalled ==
  IF WhichIpfs
    THEN (IF IpfsVersionRuns THEN "true" ELSE "false")
    ELSE (IF INSTALL_PATHS_has(platform) THEN "false" ELSE "throw")

\* a main() whose presence check does not return
main_presentReturns_never(res) == FALSE

\* `if (await checkIPFSInstalled()) return;`
main_presentReturns(res) == res = "true"

\* a presence check that repairs PATH when it finds the binary in the install
\* directory only
main_checkIPFSInstalled_fixesPath ==
  /\ variant = "cli" /\ pc = "check"
  /\ log' = Logged("check")
  /\ versionOk' = (versionOk \/ checkIPFSInstalled = "true")
  /\ execs' = IF WhichIpfs THEN Executed("check", procPath) ELSE execs
  /\ procPath' = IF ~WhichIpfs /\ bin["installDir"] # "none"
                   THEN procPath \o <<";", "installDir">> ELSE procPath
  /\ IF checkIPFSInstalled = "throw" THEN Fail("TypeError: path argument undefined")
     ELSE IF main_presentReturns(checkIPFSInstalled) THEN Finish("AlreadyPresent")
     ELSE pc' = "pkg" /\ UNCHANGED endVars
  /\ UNCHANGED <<hostVars, chainVars, providerVars, daemonVars, fsVars, userPath, retryVars, version, url, extractor,
                 cmds, pkgResult, network, inFlight>>

main_checkIPFSInstalled ==
  /\ variant = "cli" /\ pc = "check"
  /\ log' = Logged("check")
  /\ versionOk' = (versionOk \/ checkIPFSInstalled = "true")
  /\ execs' = IF WhichIpfs THEN Executed("check", procPath) ELSE execs
  /\ IF checkIPFSInstalled = "throw" THEN Fail("TypeError: path argument undefined")
     ELSE IF main_presentReturns(checkIPFSInstalled) THEN Finish("AlreadyPresent")
     ELSE pc' = "pkg" /\ UNCHANGED endVars
  /\ UNCHANGED <<hostVars, chainVars, providerVars, daemonVars, fsVars, pathVars, retryVars, version, url, extractor,
                 cmds, pkgResult, network, inFlight>>

\* the command lines installWithPackageManager runs, and its result
installWithPackageManager_cmds(firstThere, firstOk, secondThere, secondOk) ==
  CASE platform = "darwin" -> <<"brew install ipfs">>
    [] platform = "linux" ->
         <<"which apt-get">>
         \o (IF firstThere THEN <<"apt-get install ipfs">> ELSE <<>>)
         \o (IF firstThere /\ firstOk THEN <<>>
             ELSE <<"which yum">> \o (IF secondThere THEN <<"yum install ipfs">> ELSE <<>>))
    [] platform = "win32" -> <<"winget install IPFS">>
    [] OTHER -> <<>>

installWithPackageManager_result(firstThere, firstOk, secondThere, secondOk) ==
  CASE platform \in {"darwin", "win32"} -> firstThere /\ firstOk
    [] platform = "linux" -> (firstThere /\ firstOk) \/ (secondThere /\ secondOk)
    [] OTHER -> FALSE

\* an installWithPackageManager whose yum attempt is not inside a try block
installWithPackageManager_throws_uncaught(firstThere, firstOk, secondThere, secondOk) ==
  platform = "linux" /\ ~(firstThere /\ firstOk) /\ ~(secondThere /\ secondOk)

\* every execSync of installWithPackageManager sits in a try block whose catch
\* returns false or tries the next manager: no failure leaves the function
installWithPackageManager_throws(firstThere, firstOk, secondThere, secondOk) == FALSE

\* a main() that goes on to the manual installation whatever the result
main_packageManagerReturns_never(res) == FALSE

\* `if (await installWithPackageManager()) return;`
main_packageManagerReturns(res) == res

\* A successful install is taken to put a working binary into a directory of
\* the package manager's own choosing (sysDir); the installer looks at neither.
\* first*: the answers of apt-get on linux, of the single manager (brew, winget)
\* on darwin and win32; second*: the answers of yum
main_installWithPackageManager ==
  /\ variant = "cli" /\ pc = "pkg"
  /\ log' = Logged("pkg")
  /\ \E firstThere, firstOk, secondThere, secondOk \in BOOLEAN :
       LET res == installWithPackageManager_result(firstThere, firstOk, secondThere, secondOk)
       IN
       /\ cmds' = cmds \o installWithPackageManager_cmds(firstThere, firstOk, secondThere, secondOk)
       /\ IF installWithPackageManager_throws(firstThere, firstOk, secondThere, secondOk)
            THEN /\ Fail("package manager command failed")
                 /\ pkgResult' = "throw"
                 /\ UNCHANGED <<retryVars, bin>>
          ELSE IF main_packageManagerReturns(res)
            THEN /\ Finish("InstalledViaPackageManager")
                 /\ pkgResult' = "true"
                 /\ bin' = [bin EXCEPT !["sysDir"] = "ok"]
                 /\ UNCHANGED retryVars
            ELSE /\ pc' = "resolve"
                 /\ pkgResult' = IF res THEN "true" ELSE "false"
                 /\ bin' = IF res THEN [bin EXCEPT !["sysDir"] = "ok"] ELSE bin
                 /\ retry_call
                 /\ UNCHANGED endVars
  /\ UNCHANGED <<hostVars, chainVars, providerVars, daemonVars, execBit, tempDir, archive, extracted, pathVars, version,
                 url, extractor, network, inFlight, versionOk, execs>>

\* one invocation of the function getLatestVersion hands to retry()
getLatestVersion_value(ans) ==
  CASE ans = "tag_v" -> <<"v", "0.22.0">>
    [] ans = "tag_plain" -> <<"0.22.0">>
    [] OTHER -> UNDEFINED

getLatestVersion_attempt ==
  /\ variant = "cli" /\ pc = "resolve"
  /\ log' = Logged("resolve")
  /\ network' = network \cup {"registry"}
  /\ \E ans \in RegistryAnswers :
       IF ans \in {"tag_v", "tag_plain", "malformed"}
         THEN /\ version' = getLatestVersion_value(ans)
              /\ retry_return
              /\ pc' = "url"
              /\ UNCHANGED endVars
         ELSE /\ retry_catch(ans, "resolve_wait", ans, lastErr)
              /\ UNCHANGED version
  /\ UNCHANGED <<hostVars, chainVars, providerVars, daemonVars, fsVars, pathVars, url, extractor, cmds, pkgResult,
                 inFlight, versionOk, execs>>

\* getDownloadUrl(version): the URL as a record of its parts, or the error thrown
getDownloadUrl_arch(a) == IF a = "x64" THEN "amd64" ELSE a

getDownloadUrl_versionNumber(v) == IF Head(v) = "v" THEN v ELSE <<"v">> \o v

getDownloadUrl_os(p) ==
  CASE p = "win32" -> "windows" [] p = "darwin" -> "darwin" [] p = "linux" -> "linux"

getDownloadUrl_ext(p) == IF p = "win32" THEN "zip" ELSE "tar.gz"

\* a getDownloadUrl that puts the tag as it came into the file name
getDownloadUrl_rawFileName(v) ==
  [base |-> "https://github.com/ipfs/kubo/releases/download",
   dir  |-> getDownloadUrl_versionNumber(v),
   ver  |-> v,
   os   |-> getDownloadUrl_os(platform),
   arch |-> getDownloadUrl_arch(arch),
   ext  |-> getDownloadUrl_ext(platform)]

getDownloadUrl(v) ==
  [base |-> "https://github.com/ipfs/kubo/releases/download",
   dir  |-> getDownloadUrl_versionNumber(v),
   ver  |-> getDownloadUrl_versionNumber(v),
   os   |-> getDownloadUrl_os(platform),
   arch |-> getDownloadUrl_arch(arch),
   ext  |-> getDownloadUrl_ext(platform)]

main_getDownloadUrl ==
  /\ variant = "cli" /\ pc = "url"
  /\ log' = Logged("url")
  /\ IF version = UNDEFINED
       THEN Fail("TypeError: version.startsWith") /\ UNCHANGED url
     ELSE IF ~INSTALL_PATHS_has(platform)
       THEN Fail("Unsupported platform") /\ UNCHANGED url
     ELSE url' = getDownloadUrl(version) /\ pc' = "mkdir_temp" /\ UNCHANGED endVars
  /\ UNCHANGED <<hostVars, chainVars, providerVars, daemonVars, fsVars, pathVars, retryVars, version, extractor, cmds, pkgResult,
                 network, inFlight, versionOk, execs>>

\* ------------------------------------------------------------- cli: downloadAndInstall(url)
\* `await fs.mkdir(tempDir, { recursive: true })`, then the call retry(downloadFile)
downloadAndInstall_mkdirTemp ==
  /\ variant = "cli" /\ pc = "mkdir_temp"
  /\ log' = Logged("mkdir_temp")
  /\ \E ok \in BOOLEAN :
       IF ok THEN /\ tempDir' = TRUE /\ pc' = "download" /\ retry_call
                  /\ UNCHANGED endVars
             ELSE /\ Fail("mkdir failed") /\ UNCHANGED <<tempDir, retryVars>>
  /\ UNCHANGED <<hostVars, chainVars, providerVars, daemonVars, bin, execBit, archive, extracted, pathVars, version, url,
                 extractor, cmds, pkgResult, network, inFlight, versionOk, execs>>

\* the error downloadFile throws for the server's answer
downloadFile_error(ans) ==
  IF ans = "http_404" THEN "Download URL not found" ELSE ans

\* one invocation of downloadFile by retry(): `axios.get(url, ...)` sends the
\* request
downloadFile_request ==
  /\ variant = "cli" /\ pc = "download"
  /\ log' = Logged("download")
  /\ network' = network \cup {"distribution"}
  /\ inFlight' = inFlight + 1
  /\ pc' = "download_pending"
  /\ UNCHANGED <<hostVars, chainVars, providerVars, daemonVars, fsVars, pathVars, retryVars, endVars, version, url,
                 extractor, cmds, pkgResult, versionOk, execs>>

\* an axios.get whose timeout rejects without ending the request
downloadFile_settled_exceptTimeout(ans) == ans # "timeout"

\* axios settles the promise when the response has arrived in full, when the
\* connection has failed, or when its timeout has aborted the request
downloadFile_settled(ans) == TRUE

\* `await axios.get` settles; the body is held in memory
downloadFile_attempt ==
  /\ variant = "cli" /\ pc = "download_pending"
  /\ \E ans \in DownloadAnswers :
       /\ inFlight' = IF downloadFile_settled(ans) THEN inFlight - 1 ELSE inFlight
       /\ IF ans = "ok"
            THEN /\ retry_return
                 /\ pc' = "write"
                 /\ UNCHANGED endVars
            ELSE retry_catch(ans, "download_wait", downloadFile_error(ans),
                             downloadFile_error(lastErr))
  /\ UNCHANGED <<hostVars, chainVars, providerVars, daemonVars, fsVars, pathVars, version, url, extractor, log, cmds,
                 pkgResult, network, versionOk, execs>>

\* `await fs.writeFile(archivePath, fileData)`
downloadAndInstall_writeFile ==
  /\ variant = "cli" /\ pc = "write"
  /\ log' = Logged("write")
  /\ \E ok \in BOOLEAN :
       IF ok THEN /\ archive' = "complete" /\ pc' = "extract" /\ UNCHANGED endVars
             ELSE /\ archive' \in {"none", "partial"} /\ Fail("write failed")
  /\ UNCHANGED <<hostVars, chainVars, providerVars, daemonVars, bin, execBit, tempDir, extracted, pathVars, retryVars,
                 version, url, extractor, cmds, pkgResult, network, inFlight, versionOk, execs>>

\* `const isZip = url.endsWith('.zip')` picks the extractor
downloadAndInstall_isZip(u) == u.ext = "zip"

\* an extraction that unpacks into the install directory
downloadAndInstall_extract_intoInstallDir ==
  /\ variant = "cli" /\ pc = "extract"
  /\ log' = Logged("extract")
  /\ extractor' = IF downloadAndInstall_isZip(url) THEN "extract-zip" ELSE "tar"
  /\ \E r \in {"ok", "bad", "missing", "fail"} :
       IF r = "fail" THEN /\ extracted' \in {"none", "missing"} /\ Fail("extract failed")
                          /\ bin' \in {bin, [bin EXCEPT !["installDir"] = "bad"]}
                     ELSE /\ extracted' = r /\ pc' = "mkdir_install" /\ UNCHANGED endVars
                          /\ bin' = IF r = "missing" THEN bin
                                    ELSE [bin EXCEPT !["installDir"] = r]
  /\ UNCHANGED <<hostVars, chainVars, providerVars, daemonVars, execBit, tempDir, archive, pathVars, retryVars,
                 version, url, cmds, pkgResult, network, inFlight, versionOk, execs>>

\* extraction into tempDir; what the tree holds at kubo/<binaryName> is the archive's
downloadAndInstall_extract ==
  /\ variant = "cli" /\ pc = "extract"
  /\ log' = Logged("extract")
  /\ extractor' = IF downloadAndInstall_isZip(url) THEN "extract-zip" ELSE "tar"
  /\ \E r \in {"ok", "bad", "missing", "fail"} :
       IF r = "fail" THEN /\ extracted' \in {"none", "missing"} /\ Fail("extract failed")
                     ELSE /\ extracted' = r /\ pc' = "mkdir_install" /\ UNCHANGED endVars
  /\ UNCHANGED <<hostVars, chainVars, providerVars, daemonVars, bin, execBit, tempDir, archive, pathVars, retryVars,
                 version, url, cmds, pkgResult, network, inFlight, versionOk, execs>>

\* `await fs.mkdir(installPath, { recursive: true })`
downloadAndInstall_mkdirInstall ==
  /\ variant = "cli" /\ pc = "mkdir_install"
  /\ log' = Logged("mkdir_install")
  /\ \E ok \in BOOLEAN :
       IF ok THEN pc' = "access" /\ UNCHANGED endVars
             ELSE Fail("mkdir failed")
  /\ UNCHANGED <<hostVars, chainVars, providerVars, daemonVars, fsVars, pathVars, retryVars, version, url, extractor,
                 cmds, pkgResult, network, inFlight, versionOk, execs>>

\* `await fs.access(sourcePath)` or BinaryNotFound
downloadAndInstall_sourceExists(x) == x \in {"ok", "bad"}

downloadAndInstall_access ==
  /\ variant = "cli" /\ pc = "access"
  /\ log' = Logged("access")
  /\ IF downloadAndInstall_sourceExists(extracted)
       THEN pc' = "copy" /\ UNCHANGED endVars
       ELSE Fail("IPFS binary not found in extracted files")
  /\ UNCHANGED <<hostVars, chainVars, providerVars, daemonVars, fsVars, pathVars, retryVars, version, url, extractor,
                 cmds, pkgResult, network, inFlight, versionOk, execs>>

\* `await fs.copyFile(sourcePath, targetPath)`; the copy carries the source's mode
downloadAndInstall_copyFile ==
  /\ variant = "cli" /\ pc = "copy"
  /\ log' = Logged("copy")
  /\ \E ok \in BOOLEAN :
       IF ok THEN /\ bin' = [bin EXCEPT !["installDir"] = extracted]
                  /\ execBit' \in BOOLEAN
                  /\ pc' = "chmod" /\ UNCHANGED endVars
             ELSE /\ Fail("copy failed") /\ UNCHANGED <<bin, execBit>>
  /\ UNCHANGED <<hostVars, chainVars, providerVars, daemonVars, tempDir, archive, extracted, pathVars, retryVars, version,
                 url, extractor, cmds, pkgResult, network, inFlight, versionOk, execs>>

\* `await fs.chmod(targetPath, 0o755)`
downloadAndInstall_chmod ==
  /\ variant = "cli" /\ pc = "chmod"
  /\ log' = Logged("chmod")
  /\ \E ok \in BOOLEAN :
       IF ok THEN /\ execBit' = TRUE /\ pc' = "cleanup" /\ UNCHANGED endVars
             ELSE /\ Fail("chmod failed") /\ UNCHANGED execBit
  /\ UNCHANGED <<hostVars, chainVars, providerVars, daemonVars, bin, tempDir, archive, extracted, pathVars, retryVars,
                 version, url, extractor, cmds, pkgResult, network, inFlight, versionOk, execs>>

\* a downloadAndInstall without the Windows PATH block
downloadAndInstall_afterCleanup_noPath(p) == "verify"

\* `if (platform === 'win32') { ... }` after the cleanup, then the final verification
downloadAndInstall_afterCleanup(p) == IF p = "win32" THEN "path" ELSE "verify"

\* `await fs.rm(tempDir, { recursive: true, force: true })`
downloadAndInstall_rmTemp ==
  /\ variant = "cli" /\ pc = "cleanup"
  /\ log' = Logged("cleanup")
  /\ \E ok \in BOOLEAN :
       IF ok THEN /\ tempDir' = FALSE /\ archive' = "none" /\ extracted' = "none"
                  /\ pc' = downloadAndInstall_afterCleanup(platform)
                  /\ UNCHANGED endVars
             ELSE /\ Fail("rm failed") /\ UNCHANGED <<tempDir, archive, extracted>>
  /\ UNCHANGED <<hostVars, chainVars, providerVars, daemonVars, bin, execBit, pathVars, retryVars, version, url,
                 extractor, cmds, pkgResult, network, inFlight, versionOk, execs>>

\* the Windows PATH block: reads and writes the user PATH through powershell,
\* appends to process.env.PATH and runs `ipfs --version` under the new PATH
\* a PATH block that never finds the install directory in the user PATH
downloadAndInstall_userPathHas_never(p) == FALSE

\* `currentUserPath.split(';').includes(installPath)`
downloadAndInstall_userPathHas(p) == <<"installDir">> \in Range(Split(p))

\* `currentUserPath + (currentUserPath ? ';' : '') + installPath`
downloadAndInstall_newPath(p) ==
  p \o (IF p # <<>> THEN <<";">> ELSE <<>>) \o <<"installDir">>

\* a PATH block that leaves process.env.PATH as it is
downloadAndInstall_newProcessPath_unchanged(p) == p

\* `process.env.PATH + ';' + installPath`
downloadAndInstall_newProcessPath(p) == p \o <<";", "installDir">>

downloadAndInstall_windowsPath ==
  /\ variant = "cli" /\ pc = "path"
  /\ log' = Logged("path")
  /\ \E getOk, setOk \in BOOLEAN :
       IF ~getOk
         THEN /\ Fail("PATH update failed") /\ UNCHANGED <<pathVars, versionOk, execs>>
       ELSE IF ~downloadAndInstall_userPathHas(userPath) /\ ~setOk
         THEN /\ Fail("PATH update failed") /\ UNCHANGED <<pathVars, versionOk, execs>>
       ELSE /\ userPath' = IF downloadAndInstall_userPathHas(userPath) THEN userPath
                           ELSE downloadAndInstall_newPath(userPath)
            /\ procPath' = downloadAndInstall_newProcessPath(procPath)
            /\ execs' = Executed("path", downloadAndInstall_newProcessPath(procPath))
            /\ IF IpfsRunsWith(downloadAndInstall_newProcessPath(procPath))
                 THEN /\ versionOk' = TRUE /\ pc' = "verify" /\ UNCHANGED endVars
                 ELSE /\ Fail("PATH update failed") /\ UNCHANGED versionOk
  /\ UNCHANGED <<hostVars, chainVars, providerVars, daemonVars, fsVars, retryVars, version, url, extractor, cmds, pkgResult,
                 network, inFlight>>

\* a final verification that removes the installed binary when it fails
downloadAndInstall_verify_rollback ==
  /\ variant = "cli" /\ pc = "verify"
  /\ log' = Logged("verify")
  /\ execs' = Executed("verify", procPath)
  /\ IF IpfsVersionRuns
       THEN /\ versionOk' = TRUE /\ pc' = "recheck" /\ UNCHANGED <<endVars, fsVars>>
       ELSE /\ Fail("Installation verification failed") /\ UNCHANGED versionOk
            /\ bin' = [bin EXCEPT !["installDir"] = "none"]
            /\ UNCHANGED <<execBit, tempDir, archive, extracted>>
  /\ UNCHANGED <<hostVars, chainVars, providerVars, daemonVars, pathVars, retryVars, version, url, extractor,
                 cmds, pkgResult, network, inFlight>>

\* the final verification: `await execAsync('ipfs --version')`
downloadAndInstall_verify ==
  /\ variant = "cli" /\ pc = "verify"
  /\ log' = Logged("verify")
  /\ execs' = Executed("verify", procPath)
  /\ IF IpfsVersionRuns
       THEN /\ versionOk' = TRUE /\ pc' = "recheck" /\ UNCHANGED endVars
       ELSE /\ Fail("Installation verification failed") /\ UNCHANGED versionOk
  /\ UNCHANGED <<hostVars, chainVars, providerVars, daemonVars, fsVars, pathVars, retryVars, version, url, extractor,
                 cmds, pkgResult, network, inFlight>>

\* main: the second checkIPFSInstalled(), after downloadAndInstall returned
main_verifyInstalled ==
  /\ variant = "cli" /\ pc = "recheck"
  /\ log' = Logged("recheck")
  /\ versionOk' = (versionOk \/ checkIPFSInstalled = "true")
  /\ execs' = IF WhichIpfs THEN Executed("recheck", procPath) ELSE execs
  /\ IF checkIPFSInstalled = "true" THEN Finish("InstalledManually")
     ELSE Fail("Installation verification failed")
  /\ UNCHANGED <<hostVars, chainVars, providerVars, daemonVars, fsVars, pathVars, retryVars, version, url, extractor,
                 cmds, pkgResult, network, inFlight>>

\* ------------------------------------------------------------- class: IPFSInstaller.install()
\* isIPFSInstalled(): `ipfs --version` ran
IPFSInstaller_isIPFSInstalled == IpfsVersionRuns

\* `if (await this.isIPFSInstalled()) return true;`
install_presentReturns(res) == res

install_isIPFSInstalled ==
  /\ variant = "class" /\ pc = "check"
  /\ log' = Logged("check")
  /\ versionOk' = (versionOk \/ IPFSInstaller_isIPFSInstalled)
  /\ execs' = Executed("check", procPath)
  /\ IF install_presentReturns(IPFSInstaller_isIPFSInstalled)
       THEN Finish("AlreadyPresent")
       ELSE pc' = "pkg" /\ UNCHANGED endVars
  /\ UNCHANGED <<hostVars, chainVars, providerVars, daemonVars, fsVars, pathVars, retryVars, version, url, extractor,
                 cmds, pkgResult, network, inFlight>>

\* installWithPackageManager(): there = the manager's existence check passes
\* (winget only), ok = the install command exits with status 0
IPFSInstaller_installWithPackageManager_cmds(there) ==
  CASE platform = "win32" ->
         <<"winget --version">> \o (IF there THEN <<"winget install IPFS.IPFS">> ELSE <<>>)
    [] platform = "darwin" -> <<"brew install ipfs">>
    [] platform = "linux" -> <<"apt-get install ipfs">>
    [] OTHER -> <<>>

IPFSInstaller_installWithPackageManager_result(there, ok) ==
  CASE platform = "win32" -> there /\ ok
    [] platform \in {"darwin", "linux"} -> ok
    [] OTHER -> FALSE

\* the whole switch sits in a try block whose catch returns false
IPFSInstaller_installWithPackageManager_throws(there, ok) == FALSE

\* `if (await this.installWithPackageManager()) return true;`
install_packageManagerReturns(res) == res

install_installWithPackageManager ==
  /\ variant = "class" /\ pc = "pkg"
  /\ log' = Logged("pkg")
  /\ \E there, ok \in BOOLEAN :
       LET res == IPFSInstaller_installWithPackageManager_result(there, ok)
       IN
       /\ cmds' = cmds \o IPFSInstaller_installWithPackageManager_cmds(there)
       /\ IF IPFSInstaller_installWithPackageManager_throws(there, ok)
            THEN /\ Fail("package manager command failed")
                 /\ pkgResult' = "throw"
                 /\ UNCHANGED bin
          ELSE IF install_packageManagerReturns(res)
            THEN /\ Finish("InstalledViaPackageManager")
                 /\ pkgResult' = "true"
                 /\ bin' = [bin EXCEPT !["sysDir"] = "ok"]
            ELSE /\ pc' = "resolve"
                 /\ pkgResult' = IF res THEN "true" ELSE "false"
                 /\ bin' = IF res THEN [bin EXCEPT !["sysDir"] = "ok"] ELSE bin
                 /\ UNCHANGED endVars
  /\ UNCHANGED <<hostVars, chainVars, providerVars, daemonVars, execBit, tempDir, archive, extracted, pathVars, retryVars,
                 version, url, extractor, network, inFlight, versionOk, execs>>

\* getLatestVersion(): the promise is returned, not awaited, inside the try
\* block, so its rejection passes the catch block that holds the fallback
\* version and reaches install()
IPFSInstaller_getLatestVersion_rejects(ans) == ans \notin {"tag_v", "tag_plain"}

install_getLatestVersion ==
  /\ variant = "class" /\ pc = "resolve"
  /\ log' = Logged("resolve")
  /\ network' = network \cup {"registry"}
  /\ \E ans \in RegistryAnswers :
       IF IPFSInstaller_getLatestVersion_rejects(ans)
         THEN /\ Fail(ans) /\ lastErr' = ans /\ UNCHANGED version
         ELSE /\ version' = getLatestVersion_value(ans) /\ pc' = "url"
              /\ UNCHANGED <<endVars, lastErr>>
  /\ UNCHANGED <<hostVars, chainVars, providerVars, daemonVars, fsVars, pathVars, retries, delay, attempts, waits, elapsed,
                 url, extractor, cmds, pkgResult, inFlight, versionOk, execs>>

\* getDownloadUrl(version)
IPFSInstaller_getDownloadUrl_os(p) ==
  CASE p = "win32" -> "windows" [] p = "darwin" -> "macos" [] OTHER -> "linux"

IPFSInstaller_getDownloadUrl_archKnown(a) == a \in {"x64", "arm64"}

IPFSInstaller_getDownloadUrl_arch(a) == IF a = "x64" THEN "amd64" ELSE "arm64"

IPFSInstaller_getDownloadUrl(v) ==
  [base |-> "https://dist.ipfs.tech/kubo",
   dir  |-> v,
   ver  |-> v,
   os   |-> IPFSInstaller_getDownloadUrl_os(platform),
   arch |-> IPFSInstaller_getDownloadUrl_arch(arch),
   ext  |-> "tar.gz"]

install_getDownloadUrl ==
  /\ variant = "class" /\ pc = "url"
  /\ log' = Logged("url")
  /\ IF IPFSInstaller_getDownloadUrl_archKnown(arch)
       THEN url' = IPFSInstaller_getDownloadUrl(version) /\ pc' = "mkdir_temp"
            /\ UNCHANGED endVars
       ELSE Fail("Unsupported architecture") /\ UNCHANGED url
  /\ UNCHANGED <<hostVars, chainVars, providerVars, daemonVars, fsVars, pathVars, retryVars, version, extractor, cmds, pkgResult,
                 network, inFlight, versionOk, execs>>

\* `await fs.promises.mkdir(tempDir, { recursive: true })`
install_mkdirTemp ==
  /\ variant = "class" /\ pc = "mkdir_temp"
  /\ log' = Logged("mkdir_temp")
  /\ \E ok \in BOOLEAN :
       IF ok THEN tempDir' = TRUE /\ pc' = "download" /\ UNCHANGED endVars
             ELSE Fail("mkdir failed") /\ UNCHANGED tempDir
  /\ UNCHANGED <<hostVars, chainVars, providerVars, daemonVars, bin, execBit, archive, extracted, pathVars, retryVars,
                 version, url, extractor, cmds, pkgResult, network, inFlight, versionOk, execs>>

\* downloadIPFS(url, destPath): createWriteStream(destPath) creates the file
\* before the response arrives.  A status other than 200 rejects and leaves it.
\* A request error and the timeout call fs.unlink(destPath, cb) and reject at
\* once; install() then returns false and process.exit(1) runs without waiting
\* for the unlink, so the file is gone or is still there.
IPFSInstaller_downloadIPFS_files(ans) ==
  CASE ans = "ok" -> {"complete"}
    [] ans \in {"http_404", "http_500"} -> {"partial"}
    [] OTHER -> {"none", "partial"}

\* `https.get(url, ...)` sends the request
IPFSInstaller_downloadIPFS_request ==
  /\ variant = "class" /\ pc = "download"
  /\ log' = Logged("download")
  /\ network' = network \cup {"distribution"}
  /\ inFlight' = inFlight + 1
  /\ pc' = "download_pending"
  /\ UNCHANGED <<hostVars, chainVars, providerVars, daemonVars, fsVars, pathVars, retryVars, endVars, version, url,
                 extractor, cmds, pkgResult, versionOk, execs>>

\* the request has ended when the promise settles: the file stream finished
\* after the response ended, the request failed, or the timeout destroyed
\* it; a status other than 200 rejects and leaves the response unread
IPFSInstaller_downloadIPFS_ended(ans) == ans \notin {"http_404", "http_500"}

\* the promise of downloadIPFS settles
install_downloadIPFS ==
  /\ variant = "class" /\ pc = "download_pending"
  /\ attempts' = attempts + 1
  /\ \E ans \in DownloadAnswers :
       /\ archive' \in IPFSInstaller_downloadIPFS_files(ans)
       /\ inFlight' = IF IPFSInstaller_downloadIPFS_ended(ans) THEN inFlight - 1 ELSE inFlight
       /\ IF ans = "ok" THEN pc' = "extract" /\ UNCHANGED <<endVars, lastErr>>
                        ELSE Fail(ans) /\ lastErr' = ans
  /\ UNCHANGED <<hostVars, chainVars, providerVars, daemonVars, bin, execBit, tempDir, extracted, pathVars, retries, delay,
                 waits, elapsed, version, url, extractor, log, cmds, pkgResult, network,
                 versionOk, execs>>

\* `await execAsync(`tar -xzf ${archivePath} -C ${tempDir}`)`
install_extract ==
  /\ variant = "class" /\ pc = "extract"
  /\ log' = Logged("extract")
  /\ extractor' = "tar"
  /\ \E r \in {"ok", "bad", "missing", "fail"} :
       IF r = "fail" THEN /\ extracted' \in {"none", "missing"} /\ Fail("extract failed")
                     ELSE /\ extracted' = r
                          /\ pc' = IF platform = "win32" THEN "mkdir_install" ELSE "copy"
                          /\ UNCHANGED endVars
  /\ UNCHANGED <<hostVars, chainVars, providerVars, daemonVars, bin, execBit, tempDir, archive, pathVars, retryVars,
                 version, url, cmds, pkgResult, network, inFlight, versionOk, execs>>

\* win32: `await fs.promises.mkdir(path.dirname(this.ipfsPath), { recursive: true })`
install_mkdirInstall ==
  /\ variant = "class" /\ pc = "mkdir_install"
  /\ log' = Logged("mkdir_install")
  /\ \E ok \in BOOLEAN :
       IF ok THEN pc' = "copy" /\ UNCHANGED endVars
             ELSE Fail("mkdir failed")
  /\ UNCHANGED <<hostVars, chainVars, providerVars, daemonVars, fsVars, pathVars, retryVars, version, url, extractor,
                 cmds, pkgResult, network, inFlight, versionOk, execs>>

\* win32: copyFile(kubo/ipfs.exe, ipfsPath); else `sudo mv kubo/ipfs ipfsPath`.
\* Neither is preceded by a check that the source exists: a missing source
\* makes the copy or the move fail.
install_place ==
  /\ variant = "class" /\ pc = "copy"
  /\ log' = Logged("copy")
  /\ \E ok \in BOOLEAN :
       IF ok /\ extracted \in {"ok", "bad"}
         THEN /\ bin' = [bin EXCEPT !["installDir"] = extracted]
              /\ execBit' \in BOOLEAN
              /\ extracted' = IF platform = "win32" THEN extracted ELSE "missing"
              /\ pc' = IF platform = "win32" THEN "cleanup" ELSE "chmod"
              /\ UNCHANGED endVars
         ELSE /\ Fail("copy failed") /\ UNCHANGED <<bin, execBit, extracted>>
  /\ UNCHANGED <<hostVars, chainVars, providerVars, daemonVars, tempDir, archive, pathVars, retryVars, version, url,
                 extractor, cmds, pkgResult, network, inFlight, versionOk, execs>>

\* `await execAsync(`sudo chmod +x ${this.ipfsPath}`)`
install_chmod ==
  /\ variant = "class" /\ pc = "chmod"
  /\ log' = Logged("chmod")
  /\ \E ok \in BOOLEAN :
       IF ok THEN /\ execBit' = TRUE /\ pc' = "cleanup" /\ UNCHANGED endVars
             ELSE /\ Fail("chmod failed") /\ UNCHANGED execBit
  /\ UNCHANGED <<hostVars, chainVars, providerVars, daemonVars, bin, tempDir, archive, extracted, pathVars, retryVars,
                 version, url, extractor, cmds, pkgResult, network, inFlight, versionOk, execs>>

\* `await fs.promises.rm(tempDir, { recursive: true, force: true }); return true`
install_rmTemp ==
  /\ variant = "class" /\ pc = "cleanup"
  /\ log' = Logged("cleanup")
  /\ \E ok \in BOOLEAN :
       IF ok THEN /\ tempDir' = FALSE /\ archive' = "none" /\ extracted' = "none"
                  /\ Finish("InstalledManually")
             ELSE /\ Fail("rm failed") /\ UNCHANGED <<tempDir, archive, extracted>>
  /\ UNCHANGED <<hostVars, chainVars, providerVars, daemonVars, bin, execBit, pathVars, retryVars, version, url,
                 extractor, cmds, pkgResult, network, inFlight, versionOk, execs>>

\* ------------------------------------------------------------- setup: main()
IPFS_VERSION == <<"0.17.0">>

\* getOSSpecifics(): every platform other than win32 and darwin is taken for
\* Linux, the architecture is passed through unless it is x64
getOSSpecifics_os(p) ==
  CASE p = "win32" -> "windows" [] p = "darwin" -> "darwin" [] OTHER -> "linux"

getOSSpecifics_arch(a) == IF a = "x64" THEN "amd64" ELSE a

getOSSpecifics_ext(p) == IF p = "win32" THEN "zip" ELSE "tar.gz"

getOSSpecifics_downloadUrl ==
  [base |-> "https://dist.ipfs.tech/kubo",
   dir  |-> <<"v">> \o IPFS_VERSION,
   ver  |-> <<"v">> \o IPFS_VERSION,
   os   |-> getOSSpecifics_os(platform),
   arch |-> getOSSpecifics_arch(arch),
   ext  |-> getOSSpecifics_ext(platform)]

\* checkIpfsInstalled(): `await which('ipfs'); return true`, false when which
\* rejects; the program found is not run
checkIpfsInstalled == WhichIpfs

\* `if (!ipfsInstalled) { ... installIpfs() ... }`, then initializeIpfs()
setup_checkIpfsInstalled ==
  /\ variant = "setup" /\ pc = "check"
  /\ log' = Logged("check")
  /\ pc' = IF checkIpfsInstalled THEN "init" ELSE "mkdir_temp"
  /\ UNCHANGED <<hostVars, chainVars, providerVars, daemonVars, fsVars, pathVars, retryVars, endVars, version, url,
                 extractor, cmds, pkgResult, network, inFlight, versionOk, execs>>

\* a main that goes on to initializeIpfs() whatever installIpfs() returned
installIpfs_failed_ignored == pc' = "init" /\ UNCHANGED endVars

\* installIpfs() returned false: main throws, logs and calls process.exit(1)
installIpfs_failed == Fail("Failed to install IPFS")

\* getOSSpecifics(), then `await mkdir(tempDir, { recursive: true })`
installIpfs_mkdir ==
  /\ variant = "setup" /\ pc = "mkdir_temp"
  /\ log' = Logged("mkdir_temp")
  /\ version' = IPFS_VERSION
  /\ url' = getOSSpecifics_downloadUrl
  /\ \E ok \in BOOLEAN :
       IF ok THEN tempDir' = TRUE /\ pc' = "download" /\ UNCHANGED endVars
             ELSE installIpfs_failed /\ UNCHANGED tempDir
  /\ UNCHANGED <<hostVars, chainVars, providerVars, daemonVars, bin, execBit, archive, extracted, pathVars, retryVars,
                 extractor, cmds, pkgResult, network, inFlight, versionOk, execs>>

\* what response.body is: a stream with on() and pipe(), a stream without
\* them (the platform's own fetch), or null
ResponseBodies == {"node_stream", "web_stream", "null"}

\* the file ipfs.tar.gz after fetch and the piping of the body.  A response
\* that is not ok throws before createWriteStream; a connection that fails does
\* so before the response (no file) or while the body is piped (partial file);
\* a body that cannot be piped leaves the file createWriteStream opened.
installIpfs_files(ans, body) ==
  CASE ans \in {"http_404", "http_500"} -> {"none"}
    [] ans \in {"timeout", "conn_reset"} -> {"none", "partial"}
    [] ans = "ok" /\ body = "node_stream" -> {"complete"}
    [] OTHER -> {"partial"}

\* `await fetch(downloadUrl)`, one request without retry, and the write of
\* the body to tempDir/ipfs.tar.gz whatever the URL's extension is
installIpfs_fetch ==
  /\ variant = "setup" /\ pc = "download"
  /\ log' = Logged("download")
  /\ network' = network \cup {"distribution"}
  /\ attempts' = attempts + 1
  /\ \E ans \in DownloadAnswers, body \in ResponseBodies :
       /\ archive' \in installIpfs_files(ans, body)
       /\ IF ans = "ok" /\ body = "node_stream"
            THEN pc' = "extract" /\ UNCHANGED <<endVars, lastErr>>
            ELSE installIpfs_failed /\ lastErr' = (IF ans = "ok" THEN body ELSE ans)
  /\ UNCHANGED <<hostVars, chainVars, providerVars, daemonVars, bin, execBit, tempDir, extracted, pathVars, retries,
                 delay, waits, elapsed, version, url, extractor, cmds, pkgResult, inFlight,
                 versionOk, execs>>

\* what tar.x can make of the file: a zip archive is no tar archive, so on
\* win32 nothing is extracted
installIpfs_extractResults(u) ==
  IF u.ext = "zip" THEN {"missing", "fail"} ELSE {"ok", "bad", "missing", "fail"}

\* `await tar.x({ file: tempDir/ipfs.tar.gz, cwd: tempDir })`
installIpfs_extract ==
  /\ variant = "setup" /\ pc = "extract"
  /\ log' = Logged("extract")
  /\ extractor' = "tar"
  /\ \E r \in installIpfs_extractResults(url) :
       IF r = "fail" THEN /\ extracted' \in {"none", "missing"} /\ installIpfs_failed
                     ELSE /\ extracted' = r /\ pc' = "copy" /\ UNCHANGED endVars
  /\ UNCHANGED <<hostVars, chainVars, providerVars, daemonVars, bin, execBit, tempDir, archive, pathVars, retryVars,
                 version, url, cmds, pkgResult, network, inFlight, versionOk, execs>>

\* `await execAsync(`sudo mv ${tempDir}/kubo/ipfs ${installPath}`)`, return
\* true: no chmod, and tempDir is left in place
installIpfs_mv ==
  /\ variant = "setup" /\ pc = "copy"
  /\ log' = Logged("copy")
  /\ cmds' = Append(cmds, "sudo mv kubo/ipfs installPath")
  /\ \E ok \in BOOLEAN :
       IF ok /\ extracted \in {"ok", "bad"}
         THEN /\ bin' = [bin EXCEPT !["installDir"] = extracted]
              /\ execBit' \in BOOLEAN
              /\ extracted' = "missing"
              /\ pc' = "init"
              /\ UNCHANGED endVars
         ELSE /\ installIpfs_failed /\ UNCHANGED <<bin, execBit, extracted>>
  /\ UNCHANGED <<hostVars, chainVars, providerVars, daemonVars, tempDir, archive, pathVars, retryVars, version, url,
                 extractor, pkgResult, network, inFlight, versionOk, execs>>

\* the messages `ipfs init` fails with, as sequences of words: the repository
\* exists already, the repository cannot be written, the program does not run
NoError == <<>>
EREPO   == <<"ipfs", "configuration", "file", "already", "exists!">>
EACCES  == <<"permission", "denied">>
ENOEXEC == <<"ipfs:", "cannot", "execute">>

\* String.prototype.includes on sequences of words
Includes(str, part) ==
  \E i \in 1..(Len(str) - Len(part) + 1) : SubSeq(str, i, i + Len(part) - 1) = part

\* error.message of `await execAsync('ipfs init')`; written = a repository
\* that does not exist yet can be created
execAsync_ipfsInit(written) ==
  IF ~IpfsRunsWith(procPath) THEN ENOEXEC
  ELSE IF repo = "initialized" THEN EREPO
  ELSE IF written THEN NoError ELSE EACCES

\* initializeIpfs(): true when `ipfs init` succeeded or failed with a message
\* that holds 'already'; false for any other failure
initializeIpfs(err) == err = NoError \/ Includes(err, <<"already">>)

\* IPFSInstaller.initializeIPFS(): returns when `ipfs init` succeeded or
\* failed with a message that holds 'already initialized', else rethrows
IPFSInstaller_initializeIPFS(err) ==
  IF err = NoError \/ Includes(err, <<"already", "initialized">>)
    THEN "returns" ELSE "throws"

setup_initializeIpfs ==
  /\ variant = "setup" /\ pc = "init"
  /\ log' = Logged("init")
  /\ cmds' = Append(cmds, "ipfs init")
  /\ execs' = Executed("init", procPath)
  /\ \E written \in BOOLEAN :
       /\ initErr' = execAsync_ipfsInit(written)
       /\ IF initializeIpfs(execAsync_ipfsInit(written))
            THEN /\ repo' = "initialized" /\ pc' = "daemon" /\ UNCHANGED endVars
            ELSE /\ Fail("Failed to initialize IPFS") /\ UNCHANGED repo
  /\ UNCHANGED <<hostVars, chainVars, providerVars, daemonUp, spawned, readyLine, fsVars, pathVars, retryVars,
                 version, url, extractor, pkgResult, network, inFlight, versionOk>>

\* main() returned: the installation this run made, or the one it found
setup_outcome == IF "copy" \in Range(log) THEN "InstalledManually" ELSE "AlreadyPresent"

\* startIpfsDaemon(): `ipfs swarm peers` succeeds when a daemon answers;
\* otherwise `ipfs daemon` is spawned and the promise waits for its output
setup_startIpfsDaemon ==
  /\ variant = "setup" /\ pc = "daemon"
  /\ log' = Logged("daemon")
  /\ cmds' = Append(cmds, "ipfs swarm peers")
              \o (IF IpfsRunsWith(procPath) /\ daemonUp THEN <<>> ELSE <<"ipfs daemon">>)
  /\ execs' = Executed("daemon", procPath)
  /\ IF IpfsRunsWith(procPath) /\ daemonUp
       THEN /\ Finish(setup_outcome) /\ UNCHANGED spawned
       ELSE /\ spawned' = spawned + 1 /\ pc' = "daemon_wait" /\ UNCHANGED endVars
  /\ UNCHANGED <<hostVars, chainVars, providerVars, repo, daemonUp, readyLine, initErr, fsVars, pathVars, retryVars,
                 version, url, extractor, pkgResult, network, inFlight, versionOk>>

\* what arrives from the spawned daemon: a chunk of its standard output, as a
\* sequence of words, or <<>> for its end without further output
DaemonOutput == {<<"Initializing", "daemon...">>, <<"Daemon", "is", "ready">>, <<>>}

\* a startIpfsDaemon that resolves on the first output of the daemon
startIpfsDaemon_ready_anyData(data) == data # <<>>

\* `if (data.includes('Daemon is ready'))`
startIpfsDaemon_ready(data) == Includes(data, <<"Daemon", "is", "ready">>)

\* the 'data' handler of the spawned daemon's stdout: the promise resolves on
\* the readiness line; other output leaves it pending, and so does the end of
\* the daemon, for which there is no handler
startIpfsDaemon_onData ==
  /\ variant = "setup" /\ pc = "daemon_wait"
  /\ \E data \in DaemonOutput :
       /\ readyLine' = (readyLine \/ Includes(data, <<"Daemon", "is", "ready">>))
       /\ daemonUp' = (daemonUp \/ Includes(data, <<"Daemon", "is", "ready">>))
       /\ IF startIpfsDaemon_ready(data)
            THEN /\ pc' = "done" /\ outcome' = setup_outcome /\ reason' = ""
                 /\ UNCHANGED exitCode   \* the child keeps the process alive
          ELSE IF data = <<>> THEN pc' = "daemon_exited" /\ UNCHANGED endVars
          ELSE UNCHANGED <<pc, endVars>>
  /\ UNCHANGED <<hostVars, chainVars, providerVars, repo, spawned, initErr, fsVars, pathVars, retryVars, version,
                 url, extractor, log, cmds, pkgResult, network, inFlight, versionOk, execs>>

\* ------------------------------------------------------------- provider CLI: start
\* The start action marks the provider online, arms the heartbeat timer and
\* registers the SIGINT handler.  A write to the provider's row is a request
\* to the database: it is sent by the process and handled by the database
\* later, each request on its own.

\* a write request: who sent it and the value it carries for is_online
Write(by, value) == [by |-> by, is_online |-> value]

\* `await providerOperations.updateProviderStatus(address, true)`, then
\* setInterval(...) and process.on('SIGINT', ...); an error ends the action
\* in its catch with process.exit(1)
start_updateProviderStatus ==
  /\ variant \in StartCommands /\ pc = "start"
  /\ \E ok \in BOOLEAN :
       IF ok THEN /\ is_online' = TRUE /\ updateStatusInterval' = TRUE
                  /\ pc' = "online" /\ UNCHANGED exitCode
             ELSE /\ pc' = "exited" /\ exitCode' = 1
                  /\ UNCHANGED <<is_online, updateStatusInterval>>
  /\ UNCHANGED <<hostVars, chainVars, installVars, beats, requests, shutdownWritten, outcome, reason>>

\* the timer fires and the heartbeat callback starts: it awaits the reads
\* that come before its write (the select of updateProviderStatus, or
\* `ipfs swarm peers` and `ipfs repo stat -s`)
heartbeat_tick ==
  /\ variant \in StartCommands /\ pc \in {"online", "sigint_select", "sigint_wait"}
  /\ updateStatusInterval
  /\ beats < MaxBeats
  /\ UNCHANGED pc
  /\ beats' = beats + 1
  /\ UNCHANGED <<hostVars, chainVars, installVars, endVars, is_online, updateStatusInterval,
                 requests, shutdownWritten>>

\* the value the heartbeat writes: true in the minute heartbeat, the result
\* of `ipfs swarm peers` in the second heartbeat
heartbeat_values == IF variant = "start_minute" THEN {TRUE} ELSE BOOLEAN

\* a heartbeat callback goes on after its reads and sends its write; when
\* the select finds no row or a read throws, it only logs
heartbeat_update ==
  /\ variant \in StartCommands /\ pc \in {"online", "sigint_select", "sigint_wait"}
  /\ beats > 0
  /\ UNCHANGED pc
  /\ beats' = beats - 1
  /\ \E sent \in BOOLEAN, value \in heartbeat_values :
       requests' = IF sent THEN requests \cup {Write("heartbeat", value)} ELSE requests
  /\ UNCHANGED <<hostVars, chainVars, installVars, endVars, is_online, updateStatusInterval,
                 shutdownWritten>>

\* the database handles one of the requests it was sent: it applies it to
\* the row, or answers with an error
supabase_update ==
  /\ variant \in StartCommands
  /\ \E r \in requests, ok \in BOOLEAN :
       /\ requests' = requests \ {r}
       /\ is_online' = IF ok THEN r.is_online ELSE is_online
       /\ shutdownWritten' = (shutdownWritten \/ (ok /\ r.by = "SIGINT"))
  /\ UNCHANGED <<hostVars, chainVars, installVars, endVars, pc, updateStatusInterval, beats>>

\* whether the SIGINT handler stops the heartbeat timer before its write
onSIGINT_clearInterval == variant = "start_second"

\* the SIGINT handler starts.  In the second heartbeat it clears the timer
\* and sends its write; in the minute heartbeat it calls
\* updateProviderStatus(address, false), which reads the row first
start_onSIGINT ==
  /\ variant \in StartCommands /\ pc = "online"
  /\ updateStatusInterval' = (updateStatusInterval /\ ~onSIGINT_clearInterval)
  /\ IF variant = "start_second"
       THEN /\ requests' = requests \cup {Write("SIGINT", FALSE)}
            /\ pc' = "sigint_wait"
       ELSE /\ pc' = "sigint_select" /\ UNCHANGED requests
  /\ UNCHANGED <<hostVars, chainVars, installVars, endVars, is_online, beats, shutdownWritten>>

\* updateProviderStatus(address, false) of the handler: after the select the
\* upsert is sent; 'Provider not found' or a failed read is caught by the
\* handler, which goes on to process.exit(0)
onSIGINT_updateProviderStatus ==
  /\ variant = "start_minute" /\ pc = "sigint_select"
  /\ \E found \in BOOLEAN :
       IF found THEN /\ requests' = requests \cup {Write("SIGINT", FALSE)}
                     /\ pc' = "sigint_wait"
                     /\ UNCHANGED <<exitCode, beats, updateStatusInterval>>
                ELSE /\ pc' = "exited" /\ exitCode' = 0
                     /\ beats' = 0 /\ updateStatusInterval' = FALSE
                     /\ UNCHANGED requests
  /\ UNCHANGED <<hostVars, chainVars, installVars, is_online, shutdownWritten, outcome, reason>>

\* `await` of the handler's write: the database has answered it
onSIGINT_answered(sent) == Write("SIGINT", FALSE) \notin sent

\* process.exit(0): the callbacks and the timer end with the process, the
\* requests that were sent are still with the database
onSIGINT_exit ==
  /\ variant \in StartCommands /\ pc = "sigint_wait"
  /\ onSIGINT_answered(requests)
  /\ pc' = "exited" /\ exitCode' = 0
  /\ beats' = 0 /\ updateStatusInterval' = FALSE
  /\ UNCHANGED <<hostVars, chainVars, installVars, is_online, requests, shutdownWritten, outcome, reason>>

\* ------------------------------------------------------------- AlphaAIStorage.sol
\* A behaviour of variant "contract" is a sequence of transactions, each one
\* call of purchaseStorage or releaseStorage; a transaction that reverts
\* leaves the contract's storage as it was.

\* the answers of aaiToken.transferFrom: it returns true or false, or reverts
TransferAnswers == {"true", "false", "revert"}

\* `a + b` and `a - b` on uint256 under Solidity ^0.8.0: the operation
\* reverts when the result is out of range
CheckedAddOk(a, b) == a + b <= UINT_MAX
CheckedSubOk(a, b) == a - b >= 0

\* the require statements of purchaseStorage and its token transfer
purchaseStorage_requires(provider, storageAmount, transfer) ==
  /\ provider # ZERO
  /\ storageAmount > 0
  /\ transfer = "true"

\* purchaseStorage(provider, storageAmount) called by sender
purchaseStorage ==
  /\ variant = "contract"
  /\ \E sender \in Users, provider \in ProviderAddrs, storageAmount \in 0..MaxAmount,
        transfer \in TransferAnswers :
       /\ purchased[sender][provider] + storageAmount <= MaxPurchased
       /\ IF /\ purchaseStorage_requires(provider, storageAmount, transfer)
             /\ CheckedAddOk(storageBalances[sender][provider], storageAmount)
            THEN /\ storageBalances' =
                      [storageBalances EXCEPT ![sender][provider] = @ + storageAmount]
                 /\ purchased' = [purchased EXCEPT ![sender][provider] = @ + storageAmount]
                 /\ lastCall' = [fn |-> "purchaseStorage", sender |-> sender,
                                 provider |-> provider, amount |-> storageAmount,
                                 reverted |-> FALSE]
            ELSE /\ lastCall' = [fn |-> "purchaseStorage", sender |-> sender,
                                 provider |-> provider, amount |-> storageAmount,
                                 reverted |-> TRUE]
                 /\ UNCHANGED <<storageBalances, purchased>>
  /\ UNCHANGED <<hostVars, installVars, providerVars, endVars, pc, released>>

\* a releaseStorage without its first require
releaseStorage_amountOk_any(amount) == TRUE

\* `require(amount > 0, ...)`
releaseStorage_amountOk(amount) == amount > 0

\* `require(storageBalances[msg.sender][provider] >= amount, ...)`
releaseStorage_sufficient(balance, amount) == balance >= amount

\* releaseStorage(provider, amount) called by sender
releaseStorage ==
  /\ variant = "contract"
  /\ \E sender \in Users, provider \in ProviderAddrs, amount \in 0..MaxAmount :
       IF /\ releaseStorage_amountOk(amount)
          /\ releaseStorage_sufficient(storageBalances[sender][provider], amount)
          /\ CheckedSubOk(storageBalances[sender][provider], amount)
         THEN /\ storageBalances' =
                   [storageBalances EXCEPT ![sender][provider] = @ - amount]
              /\ released' = [released EXCEPT ![sender][provider] = @ + amount]
              /\ lastCall' = [fn |-> "releaseStorage", sender |-> sender,
                              provider |-> provider, amount |-> amount,
                              reverted |-> FALSE]
         ELSE /\ lastCall' = [fn |-> "releaseStorage", sender |-> sender,
                              provider |-> provider, amount |-> amount,
                              reverted |-> TRUE]
              /\ UNCHANGED <<storageBalances, released>>
  /\ UNCHANGED <<hostVars, installVars, providerVars, endVars, pc, purchased>>

Next ==
  \/ main_checkIPFSInstalled
  \/ main_installWithPackageManager
  \/ getLatestVersion_attempt
  \/ retry_tick
  \/ retry_again
  \/ main_getDownloadUrl
  \/ downloadAndInstall_mkdirTemp
  \/ downloadFile_request
  \/ downloadFile_attempt
  \/ downloadAndInstall_writeFile
  \/ downloadAndInstall_extract
  \/ downloadAndInstall_mkdirInstall
  \/ downloadAndInstall_access
  \/ downloadAndInstall_copyFile
  \/ downloadAndInstall_chmod
  \/ downloadAndInstall_rmTemp
  \/ downloadAndInstall_windowsPath
  \/ downloadAndInstall_verify
  \/ main_verifyInstalled
  \/ install_isIPFSInstalled
  \/ install_installWithPackageManager
  \/ install_getLatestVersion
  \/ install_getDownloadUrl
  \/ install_mkdirTemp
  \/ IPFSInstaller_downloadIPFS_request
  \/ install_downloadIPFS
  \/ install_extract
  \/ install_mkdirInstall
  \/ install_place
  \/ install_chmod
  \/ install_rmTemp
  \/ setup_checkIpfsInstalled
  \/ installIpfs_mkdir
  \/ installIpfs_fetch
  \/ installIpfs_extract
  \/ installIpfs_mv
  \/ setup_initializeIpfs
  \/ setup_startIpfsDaemon
  \/ startIpfsDaemon_onData
  \/ start_updateProviderStatus
  \/ heartbeat_tick
  \/ heartbeat_update
  \/ supabase_update
  \/ start_onSIGINT
  \/ onSIGINT_updateProviderStatus
  \/ onSIGINT_exit
  \/ purchaseStorage
  \/ releaseStorage

Spec == Init /\ [][Next]_vars

\* every external call returns or fails, and the program then takes its next
\* step: the event loop runs a continuation that is ready, a pending timer
\* fires once its delay has passed
FairSpec == Spec /\ WF_vars(Next)

\* ============================================================= claims
LastStep == IF log = <<>> THEN "none" ELSE log[Len(log)]

\* the host has no distribution: the OS or the CPU is not a supported one
HostUnsupported == platform \notin {"win32", "darwin", "linux"} \/ arch \notin {"x64", "arm64"}

\* C1: once a download attempt has received HTTP 404 the failure is reported
\* at once: the run has ended as Failed and no retry is pending or made.
C1_NotFoundIsFinal ==
  lastErr = "http_404" => (pc = "done" /\ outcome = "Failed" /\ attempts = 1)

\* C2: retry() never invokes fn more than MAX_RETRIES + 1 times nor waits more
\* than MAX_RETRIES times, and a run that fails in a retried step (every
\* attempt failed) has made exactly MAX_RETRIES retries and reports the error
\* of the last attempt.
C2_RetriesExactlyMax ==
  variant = "cli" =>
    /\ attempts <= MAX_RETRIES + 1
    /\ Len(waits) <= MAX_RETRIES
    /\ (outcome = "Failed" /\ LastStep \in {"resolve", "download"}) =>
         /\ attempts = MAX_RETRIES + 1
         /\ Len(waits) = MAX_RETRIES
         /\ reason = downloadFile_error(lastErr)

C2_Witness ==
  /\ variant = "cli" /\ outcome = "Failed" /\ LastStep = "download"
  /\ attempts = 4 /\ lastErr = "timeout" /\ reason = "timeout"

\* C3: the delays retry() waits are 2000, 3000, 4500 in this order (each 1.5
\* times the one before, so strictly increasing), and whenever a further
\* attempt is about to start, the delay armed after the previous failed
\* attempt has elapsed.
C3_BackoffIncreases ==
  variant = "cli" =>
    /\ Len(waits) <= 3
    /\ \A i \in DOMAIN waits : waits[i] = <<2000, 3000, 4500>>[i]
    /\ \A i \in DOMAIN waits : i > 1 => waits[i] > waits[i - 1] /\ 2 * waits[i] = 3 * waits[i - 1]
    /\ (pc \in {"resolve", "download"} /\ attempts >= 1) =>
         /\ Len(waits) = attempts
         /\ elapsed >= waits[Len(waits)]

C3_Witness ==
  /\ variant = "cli" /\ pc = "download" /\ attempts = 3
  /\ waits = <<2000, 3000, 4500>> /\ elapsed >= 4500

\* C4: when a run has failed in its download step, no file is at the
\* download's destination path.
C4_NoFileAfterFailedDownload ==
  (outcome = "Failed" /\ LastStep = "download") => archive = "none"

\* C5: when a run that entered the manual installation has failed, the scratch
\* directory and the archive in it are gone.
C5_ScratchCleanedOnFailure ==
  (outcome = "Failed" /\ "mkdir_temp" \in Range(log)) => (~tempDir /\ archive = "none")

\* C6: no run ends in failure in the version-resolution step: a registry
\* failure yields the fallback version and the run goes on.
C6_RegistryFailureFallsBack ==
  LastStep = "resolve" => outcome # "Failed"

\* C7: on a host whose (os, arch) pair is unsupported no HTTP request is sent,
\* neither to the registry nor to the distribution server.
C7_UnsupportedNeverReachesNetwork ==
  HostUnsupported => network = {}

\* C8: every download URL that is built names a mapped architecture suffix.
C8_NoUrlWithUnmappedArch ==
  url # NoUrl => url.arch \in {"amd64", "arm64"}

\* C9: a run whose last step is the post-install version check, the binary
\* having been copied, does not exit with the failure status.
C9_VerificationFailureIsNotFailure ==
  (variant = "cli" /\ pc = "done" /\ LastStep = "verify") => exitCode # 1

\* C10: when the presence check at the start of the run returned true the run
\* has ended as AlreadyPresent with status 0, and a run that ended as
\* AlreadyPresent invoked no later step: no package-manager command, no
\* request, no scratch directory, archive or extraction, no URL, no version.
C10_AlreadyPresentShortCircuits ==
  variant \in {"cli", "class"} =>
    /\ (log = <<"check">> /\ versionOk) =>
         (pc = "done" /\ outcome = "AlreadyPresent" /\ exitCode = 0)
    /\ outcome = "AlreadyPresent" =>
         /\ log = <<"check">> /\ cmds = <<>> /\ network = {}
         /\ ~tempDir /\ archive = "none" /\ extracted = "none" /\ extractor = "none"
         /\ url = NoUrl /\ version = NoVersion /\ attempts = 0

C10_Witness ==
  variant = "cli" /\ outcome = "AlreadyPresent" /\ versionOk /\ pc = "done"

\* C11: when installWithPackageManager returned true the run has ended as
\* InstalledViaPackageManager with status 0, having invoked nothing but the
\* presence check and the package manager: no version resolution, no request,
\* no scratch directory, archive or extraction, no copy, no PATH step.
C11_PackageManagerShortCircuits ==
  variant \in {"cli", "class"} =>
    /\ pkgResult = "true" =>
         /\ pc = "done" /\ outcome = "InstalledViaPackageManager" /\ exitCode = 0
         /\ log = <<"check", "pkg">> /\ network = {}
         /\ version = NoVersion /\ url = NoUrl /\ attempts = 0
         /\ ~tempDir /\ archive = "none" /\ extracted = "none" /\ extractor = "none"
    /\ outcome = "InstalledViaPackageManager" => pkgResult = "true"

C11_Witness ==
  /\ variant = "cli" /\ platform = "linux" /\ outcome = "InstalledViaPackageManager"
  /\ cmds = <<"which apt-get", "which yum", "yum install ipfs">>

\* C12: installWithPackageManager never throws; when it fails it returns false,
\* the run is then at version resolution, and no run ends in the
\* package-manager step other than as InstalledViaPackageManager: a run that
\* ended after a false result went through version resolution.
C12_PackageManagerFailureFallsThrough ==
  variant \in {"cli", "class"} =>
    /\ pkgResult # "throw"
    /\ (pkgResult = "false" /\ LastStep = "pkg") => (pc = "resolve" /\ outcome = "none")
    /\ (pc = "done" /\ LastStep = "pkg") => outcome = "InstalledViaPackageManager"
    /\ (pkgResult = "false" /\ pc = "done") => "resolve" \in Range(log)

C12_Witness ==
  /\ variant = "cli" /\ platform = "linux" /\ pkgResult = "false" /\ pc = "resolve"
  /\ cmds = <<"which apt-get", "apt-get install ipfs", "which yum", "yum install ipfs">>

\* the steps of a manual installation by main() and downloadAndInstall(), in
\* program order: presence check; package manager; version resolution
\* (resolve, url); download (mkdir_temp, download, write); extraction;
\* placement (mkdir_install, access, copy, chmod, cleanup); PATH configuration
\* on Windows; verification (verify, recheck)
ManualOrder(p) ==
  <<"check", "pkg", "resolve", "url", "mkdir_temp", "download", "write", "extract",
    "mkdir_install", "access", "copy", "chmod", "cleanup">>
  \o (IF p = "win32" THEN <<"path">> ELSE <<>>)
  \o <<"verify", "recheck">>

IsPrefix(a, b) == Len(a) <= Len(b) /\ \A i \in DOMAIN a : a[i] = b[i]

\* C13: the steps a run of main() has invoked are an initial part of the
\* manual order, none skipped and none out of order; a run that ended as
\* InstalledManually invoked all of them; and after a failed step no step
\* follows (the run is over).
C13_ManualOrder ==
  variant = "cli" =>
    /\ IsPrefix(log, ManualOrder(platform))
    /\ outcome = "InstalledManually" => log = ManualOrder(platform)
    /\ outcome = "Failed" => pc = "done"
    /\ pc = "done" => outcome # "none"

C13_Witness ==
  /\ variant = "cli" /\ platform = "win32" /\ outcome = "InstalledManually"
  /\ "path" \in Range(log)

\* the presence check of the run returned true
CheckReturnedTrue ==
  IF variant = "setup" THEN "check" \in Range(log) /\ pc = "init" /\ LastStep = "check"
                       ELSE outcome = "AlreadyPresent"

\* C14: the presence check returns true only if the binary was located and
\* `ipfs --version` ran successfully in the check; a binary that is found but
\* fails to run, or one that is only in the install directory and not on
\* PATH, yields false, and the check never raises an error (the run never
\* ends as Failed in the check).
C14_PresentOnlyIfLocatedAndExecuted ==
  /\ CheckReturnedTrue =>
       \E i \in DOMAIN execs : execs[i].step = "check" /\ execs[i].ok
  /\ LastStep = "check" => outcome # "Failed"

\* a step of the run is a presence check
PresenceCheckStep == pc \in {"check", "recheck"}

\* C15: the presence check is idempotent and free of side effects: a check
\* step changes no file, no PATH value and no installer state, and a second
\* call right after it returns what the first returned.
C15_PresenceCheckIsPure ==
  [][PresenceCheckStep =>
       /\ UNCHANGED <<fsVars, pathVars>>
       /\ UNCHANGED <<retryVars, version, url, extractor, cmds, pkgResult, network>>
       /\ checkIPFSInstalled' = checkIPFSInstalled
       /\ IPFSInstaller_isIPFSInstalled' = IPFSInstaller_isIPFSInstalled
       /\ checkIpfsInstalled' = checkIpfsInstalled]_vars

\* the check found the binary in the install directory only, returned false,
\* and the installer went on
C15_Witness ==
  /\ variant = "cli" /\ log = <<"check">> /\ pc = "pkg"
  /\ bin["installDir"] # "none" /\ ~WhichIpfs
  /\ checkIPFSInstalled = "false"

\* how often the install directory is an entry of the ';'-separated value p
InstallDirEntries(p) ==
  Cardinality({i \in DOMAIN Split(p) : Split(p)[i] = <<"installDir">>})

\* the user PATH the Windows PATH block leaves when it starts from p
UserPathAfter(p) ==
  IF downloadAndInstall_userPathHas(p) THEN p ELSE downloadAndInstall_newPath(p)

\* C16: the Windows PATH step leaves the user PATH with the install directory
\* as an entry exactly once, however often it runs: it appends the directory
\* only when no ';'-separated entry equals it, keeps the other entries as they
\* were and in order, and a further run on its result changes nothing.
C16_UserPathHasInstallDirOnce ==
  [][(variant = "cli" /\ pc = "path") =>
       /\ userPath' # userPath =>
            /\ InstallDirEntries(userPath) = 0
            /\ Split(userPath') =
                 (IF userPath = <<>> THEN <<>> ELSE Split(userPath)) \o << <<"installDir">> >>
       /\ procPath' # procPath =>
            /\ InstallDirEntries(userPath') = 1
            /\ UserPathAfter(userPath') = userPath'
            /\ UserPathAfter(UserPathAfter(userPath')) = userPath'
       /\ (InstallDirEntries(userPath) = 1 /\ procPath' # procPath) =>
            userPath' = userPath]_vars

\* the PATH step has run on a user PATH that already held the directory
C16_Witness ==
  /\ variant = "cli" /\ platform = "win32" /\ LastStep = "path" /\ pc = "verify"
  /\ userPath = <<"sysDir", ";", "installDir">>

\* the PATH step has appended the directory to a user PATH that lacked it
C16_WitnessAppended ==
  /\ variant = "cli" /\ platform = "win32" /\ LastStep = "path" /\ pc = "verify"
  /\ userPath = <<"sysDir", ";", ";", "installDir">>

\* the install directory is an entry of the ';'-separated value p
HasInstallDir(p) == <<"installDir">> \in Range(Split(p))

\* C17: on Windows the process PATH holds the install directory before the
\* version check that follows the installation is executed, whether or not
\* the user PATH held it already; on darwin and linux the installer changes
\* neither the user PATH nor the process PATH.
C17_ProcessPathBeforeVerification ==
  /\ [](variant = "cli" /\ platform = "win32" =>
          /\ \A i \in DOMAIN execs :
               execs[i].step \in {"path", "verify", "recheck"} => HasInstallDir(execs[i].path)
          /\ pc \in {"verify", "recheck"} => HasInstallDir(procPath))
  /\ [][(platform \in {"darwin", "linux"}) => UNCHANGED pathVars]_vars

\* the version check ran on Windows under a process PATH that the PATH step
\* extended, the user PATH having held the directory already
C17_Witness ==
  /\ variant = "cli" /\ platform = "win32" /\ pc = "recheck"
  /\ procPath = <<"sysDir", ";", "installDir">>
  /\ userPath = <<"installDir">>
  /\ \E i \in DOMAIN execs : execs[i].step = "verify" /\ execs[i].ok

\* C18: when the extracted tree lacks kubo/<binaryName>, placement fails with
\* the binary-not-found error before any copy is attempted, and the run ends
\* as Failed: a run that failed in placement with the binary missing reports
\* that error and has no copy step.
C18_MissingBinaryIsReported ==
  (variant \in {"cli", "class"} /\ outcome = "Failed" /\ extracted = "missing"
     /\ LastStep \in {"access", "copy"})
    => /\ reason = "IPFS binary not found in extracted files"
       /\ "copy" \notin Range(log)

\* C19: download and extraction write only inside the scratch directory: the
\* binary in the install directory is written by the copy step alone, from a
\* completely downloaded archive and an extracted tree that holds the binary,
\* and no step of a download or an extraction, failed or not, changes it.
C19_InstalledBinaryWrittenByCopyOnly ==
  [][/\ bin'["installDir"] # bin["installDir"] =>
          /\ pc = "copy" /\ LastStep' = "copy"
          /\ archive = "complete" /\ extracted \in {"ok", "bad"}
          /\ {"download", "extract"} \subseteq Range(log)
          /\ bin'["installDir"] = extracted
     /\ execBit' # execBit => pc \in {"copy", "chmod"}
     /\ pc \in {"mkdir_temp", "download", "download_pending", "download_wait", "write",
                "extract"} =>
          UNCHANGED <<bin, execBit>>]_vars

\* the move has written the binary: the install directory is on PATH and the
\* check found nothing there, and now it holds the extracted binary
C19_Witness ==
  /\ variant = "setup" /\ LastStep = "copy" /\ pc = "init"
  /\ HasInstallDir(procPath) /\ bin["sysDir"] = "none"
  /\ archive = "complete" /\ bin["installDir"] = "ok"

\* a download succeeded and the extraction failed halfway: the tree is partly
\* there, the run has failed and the install directory has no binary
C19_WitnessFailedExtraction ==
  /\ variant \in {"cli", "setup"} /\ outcome = "Failed" /\ LastStep = "extract"
  /\ archive = "complete" /\ extracted = "missing"
  /\ bin["installDir"] = "none"

\* C20: the archive format is consistent from the URL to the extractor: the
\* download URL ends in .zip exactly when the platform is Windows and in
\* .tar.gz otherwise, and the extractor is the ZIP extractor exactly when the
\* URL ends in .zip (a .zip archive is never handed to tar).
C20_ArchiveFormatConsistent ==
  /\ url # NoUrl =>
       /\ url.ext \in {"zip", "tar.gz"}
       /\ url.ext = "zip" <=> platform = "win32"
  /\ extractor # "none" => (extractor = "extract-zip" <=> url.ext = "zip")

\* the tag v as the URL of the variant carries it
TagInUrl(v) ==
  CASE variant = "cli" -> IF Head(v) = "v" THEN v ELSE <<"v">> \o v
    [] variant = "class" -> v
    [] OTHER -> <<"v">> \o v

\* C21: within a run the version tag is resolved once, the URL carries the
\* same tag string in its directory and in its file name (a tag without the
\* leading 'v' gets it in both places or in neither), and once the URL is
\* built neither the tag nor the URL changes and the registry is not asked
\* again before the download.
C21_OneTagPerRun ==
  /\ [](url # NoUrl =>
          /\ url.dir = url.ver
          /\ version \notin {NoVersion, UNDEFINED}
          /\ url.ver = TagInUrl(version))
  /\ [][/\ version # NoVersion => version' = version
        /\ url # NoUrl => /\ url' = url
                          /\ ("registry" \in network') = ("registry" \in network)]_vars

\* the registry gave a tag without 'v' and the archive was downloaded from
\* the URL built with it
C21_Witness ==
  /\ variant = "cli" /\ version = <<"0.22.0">>
  /\ url.dir = <<"v", "0.22.0">> /\ url.ver = <<"v", "0.22.0">>
  /\ archive = "complete"

\* the installers whose run is one installation
Installer == variant \in {"cli", "class"}

\* C22: if every external call returns or fails, every run of the installer
\* terminates, with exactly one of the outcomes AlreadyPresent,
\* InstalledViaPackageManager, InstalledManually and Failed(reason), set once
\* and at the end, and the process exits with the failure status exactly when
\* the outcome is Failed.
C22_TerminatesWithOneOutcome ==
  /\ Installer => <>(pc = "done")
  /\ [](Installer =>
          /\ (pc = "done") = (outcome # "none")
          /\ pc = "done" =>
               /\ outcome \in Outcomes
               /\ (exitCode = 1) = (outcome = "Failed")
               /\ outcome # "Failed" => exitCode = 0 /\ reason = ""
               /\ outcome = "Failed" => reason # "")
  /\ [][outcome # "none" => UNCHANGED endVars]_vars

\* a run that ended after its retries were used up
C22_Witness ==
  /\ variant = "cli" /\ pc = "done" /\ outcome = "Failed" /\ exitCode = 1
  /\ attempts = MAX_RETRIES + 1 /\ Len(waits) = MAX_RETRIES

\* C23: daemon initialisation is idempotent: when `ipfs init` fails because
\* the repository is initialised already, the init operation reports success
\* (returns true, does not throw); any other failure of `ipfs init` is
\* reported as a failure.
C23_InitIsIdempotent ==
  "init" \in Range(log) =>
    /\ initErr = EREPO =>
         /\ initializeIpfs(initErr)
         /\ IPFSInstaller_initializeIPFS(initErr) = "returns"
         /\ ~(LastStep = "init" /\ outcome = "Failed")
    /\ initErr \notin {NoError, EREPO} =>
         /\ ~initializeIpfs(initErr)
         /\ IPFSInstaller_initializeIPFS(initErr) = "throws"
         /\ LastStep = "init" /\ outcome = "Failed"

\* startIpfsDaemon has returned true
DaemonStartReported == variant = "setup" /\ pc = "done" /\ outcome # "Failed"

\* C24: startIpfsDaemon reports success only if `ipfs swarm peers` succeeded,
\* and then no daemon was spawned, or if the daemon it spawned has printed
\* the readiness line; while it waits for that line nothing is reported.
C24_DaemonSuccessOnlyWhenReady ==
  /\ DaemonStartReported =>
       \/ /\ spawned = 0 /\ daemonUp /\ ~readyLine
          /\ execs[Len(execs)].step = "daemon" /\ execs[Len(execs)].ok
          /\ "ipfs daemon" \notin Range(cmds)
       \/ /\ spawned = 1 /\ readyLine
  /\ (variant = "setup" /\ pc = "daemon_wait") =>
       /\ outcome = "none" /\ ~readyLine /\ spawned = 1

\* the daemon was spawned, printed the readiness line, and success was reported
C24_Witness ==
  /\ DaemonStartReported /\ spawned = 1 /\ readyLine
  /\ cmds[Len(cmds)] = "ipfs daemon"

\* the steps of the setup flow, in program order, when the presence check is
\* true and when it is false
SetupOrder(present) ==
  IF present THEN <<"check", "init", "daemon">>
  ELSE <<"check", "mkdir_temp", "download", "extract", "copy", "init", "daemon">>

\* C25: in the setup flow daemon initialisation is invoked only after the
\* presence check was true or installIpfs returned true, and daemon start
\* only after initialisation reported success; when installation or
\* initialisation fails no later step is invoked and the process exits with
\* the failure status.
C25_SetupOrder ==
  /\ [](variant = "setup" =>
          /\ IsPrefix(log, SetupOrder("copy" \notin Range(log) /\ "mkdir_temp" \notin Range(log)))
          /\ ("init" \in Range(log) /\ "copy" \notin Range(log)) => checkIpfsInstalled
          /\ ("init" \in Range(log) /\ "copy" \in Range(log)) =>
               /\ archive = "complete" /\ bin["installDir"] \in {"ok", "bad"}
          /\ "daemon" \in Range(log) => initializeIpfs(initErr) /\ repo = "initialized"
          /\ outcome = "Failed" =>
               pc = "done" /\ exitCode = 1 /\ LastStep \notin {"check", "daemon"}
          /\ (pc = "done" /\ outcome # "Failed") => LastStep = "daemon"
          /\ LastStep \in {"mkdir_temp", "download", "extract"} =>
               (pc = "done") = (outcome = "Failed"))
  /\ [][(variant = "setup" /\ pc = "done") => UNCHANGED vars]_vars

\* installation succeeded, initialisation failed: the daemon was not started
C25_Witness ==
  /\ variant = "setup" /\ log = SubSeq(SetupOrder(FALSE), 1, 6)
  /\ outcome = "Failed" /\ exitCode = 1 /\ initErr = ENOEXEC
  /\ spawned = 0 /\ "ipfs swarm peers" \notin Range(cmds)

\* the manual installation of the run has reported success
ManualInstallSucceeded ==
  IF variant = "setup" THEN "copy" \in Range(log) /\ "init" \in Range(log)
                       ELSE outcome = "InstalledManually"

\* C26: when a manual installation reports success, the downloaded archive
\* and the scratch directory have been removed.
C26_ScratchRemovedOnSuccess ==
  ManualInstallSucceeded => ~tempDir /\ archive = "none" /\ extracted = "none"

\* the steps that work on the downloaded archive
AfterDownload ==
  {"write", "extract", "mkdir_install", "access", "copy", "chmod", "cleanup", "path",
   "verify", "recheck"}

\* C27: the installer is one sequential flow: at most one download attempt is
\* in flight at any time, a retry attempt starts only after the attempt before
\* it has failed and its backoff delay has passed, and extraction and
\* placement never begin while a download attempt is in flight.
C27_OneDownloadAtATime ==
  /\ [](Installer =>
          /\ inFlight \in {0, 1}
          /\ pc = "download_pending" => inFlight = 1
          /\ pc \in AfterDownload \cup {"download", "download_wait"} => inFlight = 0)
  /\ [][(Installer /\ inFlight' > inFlight) =>
          /\ inFlight = 0
          /\ attempts > 0 =>
               /\ lastErr # "none"
               /\ Len(waits) = attempts
               /\ elapsed >= waits[Len(waits)]]_vars

\* the third download attempt is in flight, after two failures and two waits
C27_Witness ==
  /\ variant = "cli" /\ pc = "download_pending" /\ inFlight = 1
  /\ attempts = 2 /\ waits = <<2000, 3000>>

\* C28: on Linux the package-manager strategy tries yum only when apt is
\* absent: once apt-get was found and its install command was run, yum is
\* neither looked for nor run, and a failed apt install makes the strategy
\* return false.
C28_YumOnlyWhenAptAbsent ==
  (platform = "linux" /\ "apt-get install ipfs" \in Range(cmds)) =>
    /\ "which yum" \notin Range(cmds)
    /\ "yum install ipfs" \notin Range(cmds)

\* the existence check that goes with a package manager's install command
ExistenceCheckOf(cmd) ==
  CASE cmd = "brew install ipfs" -> "which brew"
    [] cmd = "apt-get install ipfs" -> "which apt-get"
    [] cmd = "yum install ipfs" -> "which yum"
    [] cmd \in {"winget install IPFS", "winget install IPFS.IPFS"} -> "winget --version"
    [] OTHER -> "none"

\* C29: the install command of a package manager is run only after a separate
\* existence check of that manager has succeeded: every install command among
\* the commands run comes right after its manager's existence check.
C29_InstallOnlyAfterExistenceCheck ==
  \A i \in DOMAIN cmds :
    ExistenceCheckOf(cmds[i]) # "none" =>
      i > 1 /\ cmds[i - 1] = ExistenceCheckOf(cmds[i])

\* the end-to-end scenario of a manual installation: the check found no ipfs,
\* no package manager installed one, the registry gave a tag, and download,
\* extraction, placement, chmod and clean-up (and the PATH step on Windows)
\* succeeded, so that the final verification was reached
ManualScenario ==
  /\ variant = "cli"
  /\ \A i \in DOMAIN execs : execs[i].step # "check"
  /\ pkgResult = "false" /\ bin["sysDir"] = "none"
  /\ version \notin {NoVersion, UNDEFINED}
  /\ "verify" \in Range(log)
  /\ bin["installDir"] = "ok" /\ execBit

\* C30: end to end, when the binary is absent, the package manager is
\* unavailable, the registry returns a version and download, extraction and
\* placement succeed, the run ends as InstalledManually with the binary in
\* the install directory, executable, and the final verification succeeded.
C30_ManualInstallEndToEnd ==
  (ManualScenario /\ pc = "done") =>
    /\ outcome = "InstalledManually"
    /\ versionOk

\* the positions of the run inside one retry() call: fn is being invoked, or
\* the timer before its next invocation is pending
InRetryOf(step) ==
  IF step = "resolve" THEN pc \in {"resolve", "resolve_wait"}
  ELSE pc \in {"download", "download_pending", "download_wait"}

\* C31: retry(fn) stops at the first successful invocation of fn: the call
\* returns with that invocation's result (the version tag is set by it), its
\* frame with the errors of the earlier attempts is gone and none of them is
\* reported, and fn is never invoked again once the call has returned; when
\* every attempt fails the error reported is the one of the last attempt.
C31_RetryStopsAtFirstSuccess ==
  [][variant = "cli" =>
       /\ (pc = "resolve" /\ pc' = "url") =>
            /\ version' # NoVersion /\ attempts' = 0 /\ lastErr' = "none"
            /\ outcome' = "none" /\ reason' = ""
       /\ (pc = "download_pending" /\ pc' = "write") =>
            /\ attempts' = 0 /\ lastErr' = "none" /\ inFlight' = 0
            /\ outcome' = "none" /\ reason' = ""
       /\ \A step \in {"resolve", "download"} :
            (step \in Range(log) /\ ~InRetryOf(step)) => ~InRetryOf(step)'
       /\ (pc \in {"resolve", "download_pending"} /\ pc' = "done") =>
            /\ attempts' = MAX_RETRIES + 1
            /\ lastErr' # "none"
            /\ reason' = downloadFile_error(lastErr')]_vars

\* the third invocation of downloadFile is under way after two failed ones
C31_WitnessRetried ==
  /\ variant = "cli" /\ pc = "download_pending" /\ attempts = 2
  /\ waits = <<2000, 3000>> /\ lastErr = "conn_reset"

\* retry(downloadFile) has returned: the run goes on with the body, and
\* nothing of the call's attempts is left
C31_Witness ==
  /\ variant = "cli" /\ pc = "write" /\ waits = <<>> /\ lastErr = "none"
  /\ LastStep = "download" /\ attempts = 0 /\ outcome = "none"

\* a run whose four download attempts failed, the last one differently from
\* the one before
C31_WitnessAllFailed ==
  /\ variant = "cli" /\ outcome = "Failed" /\ LastStep = "download"
  /\ attempts = MAX_RETRIES + 1 /\ lastErr = "http_404"
  /\ reason = "Download URL not found"

\* C32: a run that ends without failure has observed a successful
\* `ipfs --version` at some point; in particular the package-manager outcome
\* is reported only after the binary was confirmed runnable.
C32_SuccessImpliesVersionObserved ==
  (pc = "done" /\ outcome \in Outcomes \ {"Failed"}) =>
    /\ versionOk
    /\ \E i \in DOMAIN execs : execs[i].ok

\* C33: the Windows PATH step never duplicates the install directory in the
\* process PATH: a process PATH that holds the directory before the step is
\* left unchanged, and after a step that went through the directory is an
\* entry of it exactly once.
C33_ProcessPathNotDuplicated ==
  [][(variant = "cli" /\ pc = "path") =>
       /\ HasInstallDir(procPath) => procPath' = procPath
       /\ pc' = "verify" => InstallDirEntries(procPath') = 1]_vars

\* the copy into the install directory has been made
Placed ==
  /\ variant = "cli" /\ "copy" \in Range(log)
  /\ ~(pc = "done" /\ LastStep = "copy")

\* C34: the installer never rolls back a completed placement: once the
\* binary has been copied into the install directory no later step, failed
\* or not, changes or removes it, takes its executable bit away, or takes the
\* install directory out of the user PATH or of the process PATH, and a run
\* reported as failed after the placement still has the binary there.
C34_NoRollbackAfterPlacement ==
  /\ [][Placed =>
          /\ bin' = bin
          /\ execBit => execBit'
          /\ HasInstallDir(userPath) => userPath' = userPath
          /\ HasInstallDir(procPath) => HasInstallDir(procPath')]_vars
  /\ []((Placed /\ outcome = "Failed") => bin["installDir"] \in {"ok", "bad"})

\* a run that failed in the Windows PATH step after it had written the user
\* PATH: the binary and the new user PATH entry are in place
C34_Witness ==
  /\ Placed /\ platform = "win32" /\ outcome = "Failed" /\ LastStep = "path"
  /\ reason = "PATH update failed"
  /\ bin["installDir"] = "bad" /\ execBit
  /\ userPath = <<"sysDir", ";", ";", "installDir">>

\* a run whose final verification failed on darwin or linux with the binary
\* installed and executable
C34_WitnessVerification ==
  /\ Placed /\ platform \in {"darwin", "linux"} /\ outcome = "Failed"
  /\ LastStep = "verify" /\ bin["installDir"] = "ok" /\ execBit

\* C35: startIpfsDaemon eventually returns in every execution, also when the
\* spawned daemon exits or never prints the readiness line, so every run of
\* the setup flow ends with an outcome reported.
C35_DaemonStartReturns ==
  (variant = "setup") => <>(pc = "done" /\ outcome # "none")

\* C36: in the start command, once the SIGINT handler's write of
\* is_online = false has been applied and the process has exited, the
\* provider's row ends with is_online = false: when every request that was
\* sent has been handled, no heartbeat write has set it to true again.
C36_OfflineAfterShutdown ==
  (variant \in StartCommands /\ pc = "exited" /\ shutdownWritten /\ requests = {})
    => ~is_online

\* C37: after any sequence of purchaseStorage and releaseStorage calls each
\* storageBalances[user][provider] equals the total that user purchased for
\* that provider minus the total that user released, and is never negative;
\* a releaseStorage with amount 0 or with an amount greater than the caller's
\* balance reverts and leaves every balance unchanged; and a call by one user
\* changes no other user's balance.
C37_BalanceIsPurchasedMinusReleased ==
  /\ [](\A u \in Users, p \in ProviderAddrs :
          /\ storageBalances[u][p] = purchased[u][p] - released[u][p]
          /\ storageBalances[u][p] \in 0..UINT_MAX)
  /\ [][variant = "contract" =>
          /\ (/\ lastCall'.fn = "releaseStorage"
              /\ \/ lastCall'.amount = 0
                 \/ lastCall'.amount > storageBalances[lastCall'.sender][lastCall'.provider])
               => lastCall'.reverted
          /\ lastCall'.reverted => storageBalances' = storageBalances
          /\ \A u \in Users \ {lastCall'.sender} :
               storageBalances'[u] = storageBalances[u]]_vars

\* both users hold storage of the provider, user1 after a purchase and a
\* release, and user1's latest call, a release of more than the balance,
\* reverted
C37_Witness ==
  /\ variant = "contract"
  /\ purchased["user1"]["provider1"] = 3 /\ released["user1"]["provider1"] = 2
  /\ storageBalances["user1"]["provider1"] = 1
  /\ storageBalances["user2"]["provider1"] = 2
  /\ lastCall = [fn |-> "releaseStorage", sender |-> "user1", provider |-> "provider1",
                 amount |-> 2, reverted |-> TRUE]

====
